---- MODULE Spec2Model ----
(***************************************************************************)
(* A model of the Wasm module builder of runtime/vm/compiler/assembler/    *)
(* assembler_wasm.cc and of the byte streams of runtime/vm/datastream.h.   *)
(*                                                                         *)
(* The specifications share the variables below:                           *)
(*   Spec       the module builder: factory operations and OutputBinary;   *)
(*   SpecScope  a client of one WriteStream* that writes and opens/closes  *)
(*              PushBytecountFrontScope objects (WRITE_BYTECOUNT);         *)
(*   SpecLeb    WriteUnsigned followed by ReadUnsigned on one value;       *)
(*   SpecSleb   Write followed by Read on one value;                       *)
(*   SpecRef    Serialize and OutputBinary of one RefType;                 *)
(*   SpecAny    Serialize and OutputBinary of one type object that may     *)
(*              hold the heap type Any;                                    *)
(*   SpecOom    the client of SpecScope with an allocator that fails;      *)
(*   SpecStream a client writing to one WriteStream;                       *)
(*   SpecEmit   the client of Spec emitting one builder several times.     *)
(* A specification leaves the variables of the others at their idle value. *)
(***************************************************************************)
EXTENDS Integers, Sequences, FiniteSets, TLC

VARIABLES
  types,      \* WasmModuleBuilder::types_      (sequence of DefType objects)
  functions,  \* WasmModuleBuilder::functions_  (sequence of Function objects)
  proc,       \* "running", or how the process was aborted
  out,        \* the target stream of the OutputBinary call just made, if any
  ws,         \* the streams, the stream pointer, the open scopes
  entered,    \* SpecScope: what was observed when each open scope was entered
  closed,     \* SpecScope: what was observed when the last scope was left
  budget,     \* operations the client may still perform
  arg,        \* the input of the function under check
  res,        \* its results
  pc          \* position of the client

vars == <<types, functions, proc, out, ws, entered, closed, budget, arg, res, pc>>

-----------------------------------------------------------------------------
(* Bounds of the model.                                                    *)

\* SpecLeb checks every value 0..MaxUValue (and the top values of each type).
MaxUValue == 16400
\* SpecScope: number of operations of a client run.
MaxOps == 5
\* SpecScope: scopes open at the same time.
MaxDepth == 2
\* SpecRef: number of composite types registered before the RefType is made.
MaxRefTypes == 66

-----------------------------------------------------------------------------
(* Constants of datastream.h.                                              *)

kDataBitsPerByte == 7
kDataByteMask == 2 ^ kDataBitsPerByte - 1
kMoreDataMask == 2 ^ kDataBitsPerByte
kSignMask == 2 ^ (kDataBitsPerByte - 1)
kBitsPerByte == 8
\* Initial size of the sub-stream of a PushBytecountFrontScope.
kScopeInitialSize == 16

Byte == 0 .. 255

\* x & mask for a non-negative mask; x is taken in two's complement when it
\* is negative (only masks below 2^8 are used with a negative x).
RECURSIVE BitAnd(_, _)
BitAnd(x, mask) ==
  IF mask = 0 THEN 0
  ELSE (x % 2) * (mask % 2) + 2 * BitAnd(x \div 2, mask \div 2)

\* a | b on non-negative integers.
RECURSIVE BitOr(_, _)
BitOr(a, b) ==
  IF a = 0 THEN b
  ELSE IF b = 0 THEN a
  ELSE (IF a % 2 = 1 \/ b % 2 = 1 THEN 1 ELSE 0) + 2 * BitOr(a \div 2, b \div 2)

\* static_cast<Unsigned>(x) << s, truncated to an Unsigned of `bits` bits, for
\* x < 2^kDataBitsPerByte.
ShiftLeft(x, s, bits) ==
  IF s >= bits THEN 0
  ELSE IF bits - s >= kDataBitsPerByte THEN x * 2 ^ s
  ELSE (x % 2 ^ (bits - s)) * 2 ^ s

\* Utils::RoundUp(x, n).
RoundUp(x, n) == ((x + n - 1) \div n) * n

-----------------------------------------------------------------------------
(* WriteStreamBase.  A stream is its written bytes (buffer_ up to          *)
(* current_), its capacity current_size_ and its initial_size_.            *)

WriteStream(initial_size) ==
  [buffer |-> <<>>, current_size |-> initial_size, initial_size |-> initial_size]

Position(st) == Len(st.buffer)

\* A plausible slip: the buffer grows to fit exactly what is needed.
Resize_ExactFit(st, size_needed) ==
  [st EXCEPT !.current_size = Position(st) + size_needed]

Resize(st, size_needed) ==
  LET increment_size ==
        IF size_needed > st.current_size
        THEN RoundUp(size_needed, st.initial_size)
        ELSE st.current_size
  IN [st EXCEPT !.current_size = st.current_size + increment_size]

WriteByte(st, value) ==
  LET st1 == IF Position(st) >= st.current_size THEN Resize(st, 1) ELSE st
  IN [st1 EXCEPT !.buffer = Append(st1.buffer, value)]

\* WriteFixed<uint8_t>: the only instantiation the builder uses (WRITE_BYTE).
WriteFixed(st, value) ==
  LET len == 1
      st1 == IF st.current_size - Position(st) < len THEN Resize(st, len) ELSE st
  IN [st1 EXCEPT !.buffer = Append(st1.buffer, value % 2 ^ kBitsPerByte)]

WriteBytes(st, addr) ==
  LET len == Len(addr)
      st1 == IF st.current_size - Position(st) < len THEN Resize(st, len) ELSE st
  IN [st1 EXCEPT !.buffer = st1.buffer \o addr]

\* WriteInternal<T>: the do-while loop, one byte per iteration.  `remainder`
\* is the value still to be written; >> on a negative value is arithmetic.
RECURSIVE WriteInternal(_, _, _)
WriteInternal(st, value, is_unsigned) ==
  LET part == BitAnd(value, kDataByteMask)
      remainder == value \div 2 ^ kDataBitsPerByte
      is_last_part ==
        IF is_unsigned
        THEN remainder = 0
        ELSE \/ remainder = 0 /\ BitAnd(part, kSignMask) = 0
             \/ remainder = -1 /\ BitAnd(part, kSignMask) # 0
      st1 == WriteByte(st, IF is_last_part THEN part ELSE BitOr(part, kMoreDataMask))
  IN IF is_last_part THEN st1 ELSE WriteInternal(st1, remainder, is_unsigned)

\* WriteUnsigned<T>(value), value >= 0: LEB128.
WriteUnsigned(st, value) == WriteInternal(st, value, TRUE)

\* Write<T>(value): SLEB128.
Write(st, value) == WriteInternal(st, value, FALSE)

-----------------------------------------------------------------------------
(* ReadStream.  A stream is its buffer and current_ (bytes consumed).      *)

ReadStream(buffer) == [buffer |-> buffer, current |-> 0, ok |-> TRUE]

\* The do-while loop of ReadInternal<T>: the state after it, as
\* [c, r, s, b, ok]; ok is FALSE when ASSERT(c < end_) fails.
RECURSIVE ReadLoop(_, _, _, _, _)
ReadLoop(buffer, c, r, s, bits) ==
  IF c >= Len(buffer)
  THEN [c |-> c, r |-> r, s |-> s, b |-> 0, ok |-> FALSE]
  ELSE LET b == buffer[c + 1]
           r1 == BitOr(r, ShiftLeft(BitAnd(b, kDataByteMask), s, bits))
           s1 == (s + kDataBitsPerByte) % 2 ^ kBitsPerByte
       IN IF BitAnd(b, kMoreDataMask) # 0
          THEN ReadLoop(buffer, c + 1, r1, s1, bits)
          ELSE [c |-> c + 1, r |-> r1, s |-> s1, b |-> b, ok |-> TRUE]

\* ReadInternal<T> for a T of `bits` bits: the value read and the stream
\* after the read.
ReadInternal(rs, bits, is_signed) ==
  LET l == ReadLoop(rs.buffer, rs.current, 0, 0, bits)
      value ==
        IF is_signed /\ BitAnd(l.b, kSignMask) # 0 /\ l.s < bits
        THEN l.r - 2 ^ l.s
        ELSE IF is_signed /\ l.s >= bits /\ l.r >= 2 ^ (bits - 1)
        THEN l.r - 2 ^ bits
        ELSE l.r
  IN [value |-> value,
      stream |-> [rs EXCEPT !.current = l.c, !.ok = rs.ok /\ l.ok]]

\* A plausible slip: the unsigned read goes through the signed path.
ReadUnsigned_SignExtends(rs, bits) == ReadInternal(rs, bits, TRUE)

\* ReadUnsigned<T>.
ReadUnsigned(rs, bits) == ReadInternal(rs, bits, FALSE)

-----------------------------------------------------------------------------
(* Idle values of the variables a specification does not use.              *)

NoOutput == [called |-> FALSE, start |-> 0, ws |-> <<>>, text |-> <<>>]
IdleBuilder == types = <<>> /\ functions = <<>> /\ proc = "running" /\ out = NoOutput
IdleScope == ws = <<>> /\ entered = <<>> /\ closed = <<>> /\ budget = 0
IdleCall == arg = <<>> /\ res = <<>> /\ pc = "idle"

-----------------------------------------------------------------------------
(* SpecLeb: one value is written with WriteUnsigned<T>, one more byte is   *)
(* written after it, and the bytes are read back with ReadUnsigned<T>.     *)

\* sizeof(T) of the unsigned types.
UnsignedSizes == {1, 2, 4, 8}

MaxOf(bits) == IF bits < 31 THEN 2 ^ bits - 1 ELSE 2147483647

\* The values checked for a type of `bits` bits: all up to MaxUValue, and the
\* largest ones the type and the checker's integers both hold.
LebValues(bits) ==
  {v \in 0 .. MaxUValue : v <= MaxOf(bits)} \cup {MaxOf(bits) - 1, MaxOf(bits)}

\* A byte with the high bit set and one with it clear, written after the value.
FollowingBytes == {255, 0}

LebInit ==
  /\ IdleBuilder /\ IdleScope
  /\ \E size \in UnsignedSizes, follow \in FollowingBytes :
       \E v \in LebValues(size * kBitsPerByte) :
         arg = [bits |-> size * kBitsPerByte, value |-> v, follow |-> follow]
  /\ res = <<>>
  /\ pc = "write"

LebWrite ==
  /\ pc = "write"
  /\ LET st == WriteUnsigned(WriteStream(kScopeInitialSize), arg.value)
     IN res' = [written |-> st.buffer,
                buffer |-> WriteByte(st, arg.follow).buffer]
  /\ pc' = "read"
  /\ UNCHANGED <<types, functions, proc, out, ws, entered, closed, budget, arg>>

LebRead ==
  /\ pc = "read"
  /\ LET r == ReadUnsigned(ReadStream(res.buffer), arg.bits)
     IN res' = [written |-> res.written, buffer |-> res.buffer,
                value |-> r.value, position |-> r.stream.current,
                ok |-> r.stream.ok]
  /\ pc' = "done"
  /\ UNCHANGED <<types, functions, proc, out, ws, entered, closed, budget, arg>>

LebNext == LebWrite \/ LebRead

SpecLeb == LebInit /\ [][LebNext]_vars

\* LEB128 as the format defines it: 7 bits per byte, low bits first, the high
\* bit set on every byte but the last.
RECURSIVE UlebEncoding(_)
UlebEncoding(n) ==
  IF n < 128 THEN <<n>> ELSE <<128 + (n % 128)>> \o UlebEncoding(n \div 128)

RECURSIVE UlebLen(_)
UlebLen(n) == IF n < 128 THEN 1 ELSE 1 + UlebLen(n \div 128)

\* C10: ULEB128 round trip.  Reading with ReadUnsigned<T> the bytes that
\* WriteUnsigned<T>(v) wrote returns v and consumes exactly those bytes (not
\* the byte that follows them); every written byte but the last has the high
\* bit set and the last has it clear; 0, 127, 128, 16383 and 16384 are
\* written as 00, 7F, 80 01, FF 7F and 80 80 01.
C10_UlebRoundTrip ==
  /\ pc \in {"read", "done"} =>
       /\ Len(res.written) >= 1
       /\ \A i \in 1 .. Len(res.written) :
            (res.written[i] >= 128) <=> (i < Len(res.written))
       /\ arg.value = 0 => res.written = <<0>>
       /\ arg.value = 127 => res.written = <<127>>
       /\ arg.value = 128 => res.written = <<128, 1>>
       /\ arg.value = 16383 => res.written = <<255, 127>>
       /\ arg.value = 16384 => res.written = <<128, 128, 1>>
  /\ pc = "done" =>
       /\ res.ok
       /\ res.value = arg.value
       /\ res.position = Len(res.written)

\* Witness of C10: a three-byte value, followed by a byte with the high bit
\* set, was written and read back.
C10_Witness ==
  /\ pc = "done"
  /\ arg.value = 16384 /\ arg.follow = 255 /\ arg.bits = 16
  /\ res.value = 16384 /\ res.position = 3

-----------------------------------------------------------------------------
(* SpecSleb: one value is written with Write<T>, one more byte is written  *)
(* after it, and the bytes are read back with Read<T>.                     *)

\* SpecSleb checks every value -MaxSValue..MaxSValue (and the extreme values
\* of each type).
MaxSValue == 8200

\* sizeof(T) of the signed types.
SignedSizes == {1, 2, 4, 8}

\* The smallest and the largest value checked for a signed type of `bits`
\* bits: those of the type, or the ones whose encoding has four bytes.
MinOfSigned(bits) == IF bits < 28 THEN -(2 ^ (bits - 1)) ELSE -(2 ^ 27)
MaxOfSigned(bits) == IF bits < 28 THEN 2 ^ (bits - 1) - 1 ELSE 2 ^ 27 - 1

SlebValues(bits) ==
  {v \in -MaxSValue .. MaxSValue : MinOfSigned(bits) <= v /\ v <= MaxOfSigned(bits)}
    \cup {MinOfSigned(bits), MinOfSigned(bits) + 1,
          MaxOfSigned(bits) - 1, MaxOfSigned(bits)}

\* A plausible slip: the signed read never extends the sign.
Read_NoSignExtension(rs, bits) == ReadInternal(rs, bits, FALSE)

\* Read<T> for a signed T of `bits` bits.
Read(rs, bits) == ReadInternal(rs, bits, TRUE)

SlebInit ==
  /\ IdleBuilder /\ IdleScope
  /\ \E size \in SignedSizes, follow \in FollowingBytes :
       \E v \in SlebValues(size * kBitsPerByte) :
         arg = [bits |-> size * kBitsPerByte, value |-> v, follow |-> follow]
  /\ res = <<>>
  /\ pc = "write"

SlebWrite ==
  /\ pc = "write"
  /\ LET st == Write(WriteStream(kScopeInitialSize), arg.value)
     IN res' = [written |-> st.buffer,
                buffer |-> WriteByte(st, arg.follow).buffer]
  /\ pc' = "read"
  /\ UNCHANGED <<types, functions, proc, out, ws, entered, closed, budget, arg>>

SlebRead ==
  /\ pc = "read"
  /\ LET r == Read(ReadStream(res.buffer), arg.bits)
     IN res' = [written |-> res.written, buffer |-> res.buffer,
                value |-> r.value, position |-> r.stream.current,
                ok |-> r.stream.ok]
  /\ pc' = "done"
  /\ UNCHANGED <<types, functions, proc, out, ws, entered, closed, budget, arg>>

SlebNext == SlebWrite \/ SlebRead

SpecSleb == SlebInit /\ [][SlebNext]_vars

\* Whether v fits n groups of 7 bits with bit 6 of the last group as sign.
FitsGroups(v, n) == -(2 ^ (7 * n - 1)) <= v /\ v < 2 ^ (7 * n - 1)

\* The minimum number of 7-bit groups that hold v with its sign.
MinGroups(v) == CHOOSE n \in 1 .. 4 : FitsGroups(v, n) /\ (n > 1 => ~FitsGroups(v, n - 1))

\* C11: SLEB128 round trip and minimality.  Reading with Read<T> the bytes
\* that Write<T>(v) wrote returns v and consumes exactly those bytes; their
\* number is the minimum number of 7-bit groups whose last group has bit 6
\* equal to the sign of v; every byte but the last has the high bit set; 63
\* and -64 take one byte, 64 and -65 take two, and the type tags -0x10..-0x17
\* are the single bytes 0x70..0x69.
C11_SlebRoundTrip ==
  /\ pc \in {"read", "done"} =>
       /\ Len(res.written) = MinGroups(arg.value)
       /\ \A i \in 1 .. Len(res.written) :
            (res.written[i] >= 128) <=> (i < Len(res.written))
       /\ (BitAnd(res.written[Len(res.written)], kSignMask) # 0) <=> (arg.value < 0)
       /\ arg.value \in {63, -64} => Len(res.written) = 1
       /\ arg.value \in {64, -65} => Len(res.written) = 2
       /\ arg.value \in -23 .. -16 => res.written = <<128 + arg.value>>
  /\ pc = "done" =>
       /\ res.ok
       /\ res.value = arg.value
       /\ res.position = Len(res.written)

\* Witness of C11: a negative two-byte value, followed by a byte with the
\* high bit set, was written and read back.
C11_Witness ==
  /\ pc = "done"
  /\ arg.value = -65 /\ arg.follow = 255 /\ arg.bits = 16
  /\ res.written = <<191, 127>> /\ res.value = -65 /\ res.position = 2

-----------------------------------------------------------------------------
(* The stream pointer of an Output method and the scopes opened on it.     *)
(*   mem     every WriteStream object; mem[1] is the caller's stream       *)
(*   stream  the WriteStream* stream of the method: an index of mem        *)
(*   scopes  the live PushBytecountFrontScope objects, innermost last      *)
(*   status  "ok", or the fatal error that aborted the process             *)
(*   trace   the global FLAG_trace_wasm_compilation, which the methods read *)
(*   log     what WasmTrace printed                                        *)

StreamState(target) ==
  [mem |-> <<target>>, stream |-> 1, scopes |-> <<>>, status |-> "ok",
   trace |-> FALSE, log |-> <<>>]

\* The same with FLAG_trace_wasm_compilation set to flag.
TracedStreamState(target, flag) == [StreamState(target) EXCEPT !.trace = flag]

WRITE_BYTE(s, m) ==
  IF s.status # "ok" THEN s
  ELSE [s EXCEPT !.mem[s.stream] = WriteFixed(s.mem[s.stream], m)]

WRITE_UNSIGNED(s, m) ==
  IF s.status # "ok" THEN s
  ELSE [s EXCEPT !.mem[s.stream] = WriteUnsigned(s.mem[s.stream], m)]

WRITE_SIGNED(s, m) ==
  IF s.status # "ok" THEN s
  ELSE [s EXCEPT !.mem[s.stream] = Write(s.mem[s.stream], m)]

\* FATAL / UNIMPLEMENTED: the process is aborted, nothing is written after.
Abort(s, how) == IF s.status # "ok" THEN s ELSE [s EXCEPT !.status = how]

\* A plausible slip: the trace message goes to the stream being written.
WasmTrace_ToStream(s, message) ==
  IF s.status # "ok" \/ ~s.trace THEN s
  ELSE [s EXCEPT !.log = Append(s.log, message),
                 !.mem[s.stream] = WriteByte(s.mem[s.stream], 10)]

\* WasmTrace(format, ...): prints only when the flag is set.
WasmTrace(s, message) ==
  IF s.status # "ok" \/ ~s.trace THEN s
  ELSE [s EXCEPT !.log = Append(s.log, message)]

\* A plausible slip: the constructor never redirects the stream pointer.
PushBytecountFrontScope_NoSwap(s) ==
  IF s.status # "ok" THEN s
  ELSE [s EXCEPT !.mem = Append(s.mem, WriteStream(kScopeInitialSize)),
                 !.scopes = Append(s.scopes, [old_stream |-> s.stream,
                                              new_stream |-> Len(s.mem) + 1])]

\* WRITE_BYTECOUNT(): the constructor of PushBytecountFrontScope.
PushBytecountFrontScope(s) ==
  IF s.status # "ok" THEN s
  ELSE [s EXCEPT !.mem = Append(s.mem, WriteStream(kScopeInitialSize)),
                 !.scopes = Append(s.scopes, [old_stream |-> s.stream,
                                              new_stream |-> Len(s.mem) + 1]),
                 !.stream = Len(s.mem) + 1]

\* A plausible slip: the byte count is written with Write (SLEB128).
LeaveBytecountFrontScope_Signed(s) ==
  IF s.status # "ok" THEN s
  ELSE LET scope == s.scopes[Len(s.scopes)]
           replacement_buffer == s.mem[scope.new_stream].buffer
           bytes_written == Position(s.mem[scope.new_stream])
           t == WasmTrace(s, "Copying " \o ToString(bytes_written)
                               \o " bytes to parent WriteStream.\n")
           old1 == Write(t.mem[scope.old_stream], bytes_written)
           old2 == WriteBytes(old1, SubSeq(replacement_buffer, 1, bytes_written))
       IN [t EXCEPT !.mem[scope.old_stream] = old2,
                    !.stream = scope.old_stream,
                    !.scopes = SubSeq(s.scopes, 1, Len(s.scopes) - 1)]

\* A plausible slip: the number written is the offset at which the copied
\* bytes will end in the parent stream, not their count.
LeaveBytecountFrontScope_EndOffset(s) ==
  IF s.status # "ok" THEN s
  ELSE LET scope == s.scopes[Len(s.scopes)]
           replacement_buffer == s.mem[scope.new_stream].buffer
           bytes_written == Position(s.mem[scope.new_stream])
           t == WasmTrace(s, "Copying " \o ToString(bytes_written)
                               \o " bytes to parent WriteStream.\n")
           old1 == WriteUnsigned(t.mem[scope.old_stream],
                                 Position(t.mem[scope.old_stream]) + bytes_written)
           old2 == WriteBytes(old1, SubSeq(replacement_buffer, 1, bytes_written))
       IN [t EXCEPT !.mem[scope.old_stream] = old2,
                    !.stream = scope.old_stream,
                    !.scopes = SubSeq(s.scopes, 1, Len(s.scopes) - 1)]

\* ~PushBytecountFrontScope() of the innermost scope.  A process that was
\* aborted runs no destructor.
LeaveBytecountFrontScope(s) ==
  IF s.status # "ok" THEN s
  ELSE LET scope == s.scopes[Len(s.scopes)]
           replacement_buffer == s.mem[scope.new_stream].buffer
           bytes_written == Position(s.mem[scope.new_stream])
           t == WasmTrace(s, "Copying " \o ToString(bytes_written)
                               \o " bytes to parent WriteStream.\n")
           old1 == WriteUnsigned(t.mem[scope.old_stream], bytes_written)
           old2 == WriteBytes(old1, SubSeq(replacement_buffer, 1, bytes_written))
       IN [t EXCEPT !.mem[scope.old_stream] = old2,
                    !.stream = scope.old_stream,
                    !.scopes = SubSeq(s.scopes, 1, Len(s.scopes) - 1)]

-----------------------------------------------------------------------------
(* The type model.  Objects are records of one shape per class; a pointer   *)
(* to a DefType is its position in types_ (objects are never removed),     *)
(* 0 is nullptr.  What index() returns is the stored field `index`.        *)

NoHeapType == [kind |-> "none", def_type |-> 0]
\* HeapType(Kind kind): one of the abstract heap types.
HeapType(kind) == [kind |-> kind, def_type |-> 0]
\* HeapType(DefType* def_type): WasmModuleBuilder::MakeHeapType.
MakeHeapType(def_type) == [kind |-> "kTypeidx", def_type |-> def_type]

NumType(kind) ==
  [tag |-> "NumType", kind |-> kind, nullable |-> FALSE,
   heap_type |-> NoHeapType, depth |-> 0]
\* WasmModuleBuilder::MakeRefType.
MakeRefType(nullable, heap_type) ==
  [tag |-> "RefType", kind |-> "none", nullable |-> nullable,
   heap_type |-> heap_type, depth |-> 0]
Rtt(depth, heap_type) ==
  [tag |-> "Rtt", kind |-> "none", nullable |-> FALSE,
   heap_type |-> heap_type, depth |-> depth]
NoValueType ==
  [tag |-> "none", kind |-> "none", nullable |-> FALSE,
   heap_type |-> NoHeapType, depth |-> 0]

\* WasmModuleBuilder::MakeFieldType, both overloads.
MakeFieldType(value_type, mut) ==
  [packed_type |-> "kNoType", value_type |-> value_type, mut |-> mut]
MakePackedFieldType(packed_type, mut) ==
  [packed_type |-> packed_type, value_type |-> NoValueType, mut |-> mut]
NoFieldType == [packed_type |-> "none", value_type |-> NoValueType, mut |-> FALSE]

Field(field_type, index) == [field_type |-> field_type, index |-> index]

FuncType(index, result_type) ==
  [kind |-> "FuncType", index |-> index, param_types |-> <<>>,
   result_type |-> result_type, fields |-> <<>>, field_type |-> NoFieldType]
StructType(index) ==
  [kind |-> "StructType", index |-> index, param_types |-> <<>>,
   result_type |-> NoValueType, fields |-> <<>>, field_type |-> NoFieldType]
ArrayType(index, field_type) ==
  [kind |-> "ArrayType", index |-> index, param_types |-> <<>>,
   result_type |-> NoValueType, fields |-> <<>>, field_type |-> field_type]

\* S-expressions of the text form.
SExpSymbol(name) == [sexp |-> "symbol", name |-> name, value |-> 0, items |-> <<>>]
SExpInteger(value) == [sexp |-> "integer", name |-> "", value |-> value, items |-> <<>>]
SExpList(items) == [sexp |-> "list", name |-> "", value |-> 0, items |-> items]

-----------------------------------------------------------------------------
(* Serialize and OutputBinary of the types.  ts is the types_ list that    *)
(* def_type_ pointers point into.                                          *)

NumType_OutputBinary(s, t) ==
  CASE t.kind = "kI32" -> WRITE_BYTE(s, 127)
    [] t.kind = "kI64" -> WRITE_BYTE(s, 126)
    [] t.kind = "kF32" -> WRITE_BYTE(s, 125)
    [] t.kind = "kF64" -> WRITE_BYTE(s, 124)
    [] t.kind = "kV128" -> WRITE_BYTE(s, 123)
    [] OTHER -> Abort(s, "UNREACHABLE")

HeapType_Serialize(ts, h) ==
  CASE h.kind = "kFunc" -> SExpSymbol("func")
    [] h.kind = "kExtern" -> SExpSymbol("extern")
    [] h.kind = "kTypeidx" -> SExpInteger(ts[h.def_type].index)
    [] h.kind = "kAny" -> SExpSymbol("any")
    [] h.kind = "kEq" -> SExpSymbol("eq")
    [] h.kind = "kI31" -> SExpSymbol("i31")

\* A plausible slip: Any is written with its tag, without the FATAL.
HeapType_OutputBinary_WritesAny(s, ts, h) ==
  CASE h.kind = "kFunc" -> WRITE_SIGNED(s, -16)
    [] h.kind = "kExtern" -> WRITE_SIGNED(s, -17)
    [] h.kind = "kTypeidx" -> WRITE_SIGNED(s, ts[h.def_type].index)
    [] h.kind = "kAny" -> WRITE_SIGNED(s, -18)
    [] h.kind = "kEq" -> WRITE_SIGNED(s, -19)
    [] h.kind = "kI31" -> WRITE_SIGNED(s, -22)
    [] OTHER -> Abort(s, "UNREACHABLE")

\* FATAL aborts the process: the WRITE_SIGNED(-0x12) after it writes nothing.
HeapType_OutputBinary(s, ts, h) ==
  CASE h.kind = "kFunc" -> WRITE_SIGNED(s, -16)
    [] h.kind = "kExtern" -> WRITE_SIGNED(s, -17)
    [] h.kind = "kTypeidx" -> WRITE_SIGNED(s, ts[h.def_type].index)
    [] h.kind = "kAny" -> WRITE_SIGNED(Abort(s, "FATAL"), -18)
    [] h.kind = "kEq" -> WRITE_SIGNED(s, -19)
    [] h.kind = "kI31" -> WRITE_SIGNED(s, -22)
    [] OTHER -> Abort(s, "UNREACHABLE")

RefType_Serialize(ts, r) ==
  IF ~r.nullable /\ r.heap_type.kind = "kI31" THEN SExpSymbol("i31ref")
  ELSE IF r.nullable /\ r.heap_type.kind = "kFunc" THEN SExpSymbol("funcref")
  ELSE IF r.nullable /\ r.heap_type.kind = "kExtern" THEN SExpSymbol("externref")
  ELSE IF r.nullable /\ r.heap_type.kind = "kAny" THEN SExpSymbol("anyref")
  ELSE IF r.nullable /\ r.heap_type.kind = "kEq" THEN SExpSymbol("eqref")
  ELSE SExpList(<<SExpSymbol("ref")>>
                \o (IF r.nullable THEN <<SExpSymbol("null")>> ELSE <<>>)
                \o <<HeapType_Serialize(ts, r.heap_type)>>)

\* A plausible slip: the binary form never uses the shorthand notations.
RefType_OutputBinary_General(s, ts, r) ==
  HeapType_OutputBinary(
      IF r.nullable THEN WRITE_SIGNED(s, -20) ELSE WRITE_SIGNED(s, -21),
      ts, r.heap_type)

RefType_OutputBinary(s, ts, r) ==
  IF ~r.nullable /\ r.heap_type.kind = "kI31" THEN WRITE_SIGNED(s, -22)
  ELSE IF r.nullable /\ r.heap_type.kind \in {"kFunc", "kExtern", "kAny", "kEq"}
  THEN HeapType_OutputBinary(s, ts, r.heap_type)
  ELSE HeapType_OutputBinary(
           IF r.nullable THEN WRITE_SIGNED(s, -20) ELSE WRITE_SIGNED(s, -21),
           ts, r.heap_type)

Rtt_OutputBinary(s, ts, r) ==
  HeapType_OutputBinary(WRITE_UNSIGNED(WRITE_SIGNED(s, -23), r.depth),
                        ts, r.heap_type)

\* The virtual call type->OutputBinary(stream) on a ValueType*.
ValueType_OutputBinary(s, ts, t) ==
  CASE t.tag = "NumType" -> NumType_OutputBinary(s, t)
    [] t.tag = "RefType" -> RefType_OutputBinary(s, ts, t)
    [] t.tag = "Rtt" -> Rtt_OutputBinary(s, ts, t)

FieldType_OutputBinary(s, ts, f) ==
  LET s1 == CASE f.packed_type = "kNoType" -> ValueType_OutputBinary(s, ts, f.value_type)
              [] f.packed_type = "kI8" -> WRITE_BYTE(s, 122)
              [] f.packed_type = "kI16" -> WRITE_BYTE(s, 121)
              [] OTHER -> Abort(s, "UNREACHABLE")
  IN IF f.mut THEN WRITE_BYTE(s1, 1) ELSE WRITE_BYTE(s1, 0)

Field_OutputBinary(s, ts, f) == FieldType_OutputBinary(s, ts, f.field_type)

\* for (ValueType* type : param_types_) type->OutputBinary(stream), from the
\* i-th element on.
RECURSIVE OutputValueTypes(_, _, _, _)
OutputValueTypes(s, ts, value_types, i) ==
  IF i > Len(value_types) THEN s
  ELSE OutputValueTypes(ValueType_OutputBinary(s, ts, value_types[i]),
                        ts, value_types, i + 1)

\* for (Field* field : fields_) field->OutputBinary(stream).
RECURSIVE OutputFields(_, _, _, _)
OutputFields(s, ts, fields, i) ==
  IF i > Len(fields) THEN s
  ELSE OutputFields(Field_OutputBinary(s, ts, fields[i]), ts, fields, i + 1)

FuncType_OutputBinary(s, ts, t) ==
  LET s1 == WRITE_UNSIGNED(WRITE_BYTE(s, 96), Len(t.param_types))
      s2 == OutputValueTypes(s1, ts, t.param_types, 1)
  IN ValueType_OutputBinary(WRITE_BYTE(s2, 1), ts, t.result_type)

StructType_OutputBinary(s, ts, t) ==
  OutputFields(WRITE_UNSIGNED(WRITE_BYTE(s, 95), Len(t.fields)), ts, t.fields, 1)

ArrayType_OutputBinary(s, ts, t) ==
  FieldType_OutputBinary(WRITE_BYTE(s, 94), ts, t.field_type)

\* The virtual call def_type->OutputBinary(stream) on a DefType*.
DefType_OutputBinary(s, ts, t) ==
  CASE t.kind = "FuncType" -> FuncType_OutputBinary(s, ts, t)
    [] t.kind = "StructType" -> StructType_OutputBinary(s, ts, t)
    [] t.kind = "ArrayType" -> ArrayType_OutputBinary(s, ts, t)

-----------------------------------------------------------------------------
(* The factory operations of WasmModuleBuilder on the type list.           *)

\* A plausible slip: the index is taken after the type was added.
WasmModuleBuilder_MakeStructType_IndexAfterAdd(ts) ==
  Append(ts, StructType(Len(ts) + 1))

WasmModuleBuilder_MakeStructType(ts) == Append(ts, StructType(Len(ts)))

WasmModuleBuilder_MakeFuncType(ts, result_type) ==
  Append(ts, FuncType(Len(ts), result_type))

WasmModuleBuilder_MakeArrayType(ts, field_type) ==
  Append(ts, ArrayType(Len(ts), field_type))

-----------------------------------------------------------------------------
(* SpecRef: a builder registers MaxRefTypes composite types, one RefType is *)
(* made over an abstract heap type or over one of the composites, and it   *)
(* is serialised as text and as binary.                                    *)

AbstractHeapKinds == {"kFunc", "kExtern", "kAny", "kEq", "kI31"}

RECURSIVE RegisteredStructs(_)
RegisteredStructs(n) ==
  IF n = 0 THEN <<>> ELSE WasmModuleBuilder_MakeStructType(RegisteredStructs(n - 1))

RefInit ==
  /\ types = RegisteredStructs(MaxRefTypes)
  /\ functions = <<>> /\ proc = "running" /\ out = NoOutput
  /\ IdleScope
  /\ \E nullable \in BOOLEAN :
       \/ \E kind \in AbstractHeapKinds :
            arg = MakeRefType(nullable, HeapType(kind))
       \/ \E def_type \in 1 .. MaxRefTypes :
            arg = MakeRefType(nullable, MakeHeapType(def_type))
  /\ res = <<>>
  /\ pc = "serialize"

RefFrame == UNCHANGED <<types, functions, proc, out, ws, entered, closed, budget, arg>>

RefSerialize ==
  /\ pc = "serialize"
  /\ res' = [text |-> RefType_Serialize(types, arg)]
  /\ pc' = "output"
  /\ RefFrame

RefOutputBinary ==
  /\ pc = "output"
  /\ res' = [text |-> res.text,
             binary |-> RefType_OutputBinary(
                            StreamState(WriteStream(kScopeInitialSize)), types, arg)]
  /\ pc' = "done"
  /\ RefFrame

RefNext == RefSerialize \/ RefOutputBinary

SpecRef == RefInit /\ [][RefNext]_vars

\* SLEB128 of a non-negative number as the format defines it.
RECURSIVE SlebEncoding(_)
SlebEncoding(n) ==
  IF n < 64 THEN <<n>> ELSE <<128 + (n % 128)>> \o SlebEncoding(n \div 128)

IsShorthand(r) ==
  \/ ~r.nullable /\ r.heap_type.kind = "kI31"
  \/ r.nullable /\ r.heap_type.kind \in {"kFunc", "kExtern", "kAny", "kEq"}

ShorthandText(r) ==
  CASE r.heap_type.kind = "kI31" -> SExpSymbol("i31ref")
    [] r.heap_type.kind = "kFunc" -> SExpSymbol("funcref")
    [] r.heap_type.kind = "kExtern" -> SExpSymbol("externref")
    [] r.heap_type.kind = "kAny" -> SExpSymbol("anyref")
    [] r.heap_type.kind = "kEq" -> SExpSymbol("eqref")

\* The heap type's text and bytes: tags 0x70, 0x6F, 0x6E, 0x6D, 0x6A.
HeapText(h) ==
  CASE h.kind = "kFunc" -> SExpSymbol("func")
    [] h.kind = "kExtern" -> SExpSymbol("extern")
    [] h.kind = "kAny" -> SExpSymbol("any")
    [] h.kind = "kEq" -> SExpSymbol("eq")
    [] h.kind = "kI31" -> SExpSymbol("i31")
    [] h.kind = "kTypeidx" -> SExpInteger(h.def_type - 1)

HeapBytes(h) ==
  CASE h.kind = "kFunc" -> <<112>>
    [] h.kind = "kExtern" -> <<111>>
    [] h.kind = "kAny" -> <<110>>
    [] h.kind = "kEq" -> <<109>>
    [] h.kind = "kI31" -> <<106>>
    [] h.kind = "kTypeidx" -> SlebEncoding(h.def_type - 1)

GeneralText(r) ==
  SExpList(<<SExpSymbol("ref")>>
           \o (IF r.nullable THEN <<SExpSymbol("null")>> ELSE <<>>)
           \o <<HeapText(r.heap_type)>>)

\* 0x6C is SLEB -0x14, 0x6B is SLEB -0x15.
GeneralBytes(r) == (IF r.nullable THEN <<108>> ELSE <<107>>) \o HeapBytes(r.heap_type)

\* C5 as stated: every RefType that matches a shorthand rule is emitted, as
\* text and as binary, in the shorthand form (binary: the single heap tag),
\* and every other RefType in the general form, SLEB -0x14 or -0x15 followed
\* by the heap type.
C5_AsStated ==
  pc = "done" =>
    /\ res.binary.status = "ok"
    /\ IF IsShorthand(arg)
       THEN /\ res.text = ShorthandText(arg)
            /\ res.binary.mem[1].buffer = HeapBytes(arg.heap_type)
       ELSE /\ res.text = GeneralText(arg)
            /\ res.binary.mem[1].buffer = GeneralBytes(arg)

\* C5, amended: the text of every RefType is as stated.  The binary form is
\* as stated for every RefType whose heap type is not Any.  Over the heap
\* type Any the binary emission is a fatal error: nullable (anyref) writes
\* nothing, non-null writes only SLEB -0x15; the tag of Any is never written.
C5_Shorthand ==
  pc = "done" =>
    /\ res.text = (IF IsShorthand(arg) THEN ShorthandText(arg) ELSE GeneralText(arg))
    /\ IF arg.heap_type.kind = "kAny"
       THEN /\ res.binary.status = "FATAL"
            /\ res.binary.mem[1].buffer = (IF arg.nullable THEN <<>> ELSE <<107>>)
       ELSE /\ res.binary.status = "ok"
            /\ res.binary.mem[1].buffer =
                 (IF IsShorthand(arg) THEN HeapBytes(arg.heap_type)
                  ELSE GeneralBytes(arg))

\* Witness of C5: funcref was emitted as the symbol funcref and the byte 0x70.
C5_Witness ==
  /\ pc = "done"
  /\ arg = MakeRefType(TRUE, HeapType("kFunc"))
  /\ res.text = SExpSymbol("funcref")
  /\ res.binary.mem[1].buffer = <<112>>

-----------------------------------------------------------------------------
(* Instructions, locals and functions.  A Local* is the position of the    *)
(* local in its function's locals_; body_ == nullptr is present = FALSE.   *)

Instruction(op, local, value) ==
  [op |-> op, local |-> local, value |-> value, then_ |-> <<>>, otherwise_ |-> <<>>]
LocalGet(local) == Instruction("LocalGet", local, 0)
LocalSet(local) == Instruction("LocalSet", local, 0)
Int32Add == Instruction("Int32Add", 0, 0)
Constant(value) == Instruction("Constant", 0, value)
If == Instruction("If", 0, 0)

Local(kind, type, name, index) ==
  [kind |-> kind, type |-> type, name |-> name, index |-> index]

NoBody == [present |-> FALSE, instructions |-> <<>>]
InstructionList == [present |-> TRUE, instructions |-> <<>>]

Function(name, index, type) ==
  [name |-> name, index |-> index, type |-> type, locals |-> <<>>, body |-> NoBody]

\* A plausible slip: If writes its opcode instead of stopping.
Instruction_OutputBinary_IfWritten(s, instr) ==
  CASE instr.op = "LocalGet" -> Abort(s, "UNIMPLEMENTED")
    [] instr.op = "LocalSet" -> Abort(s, "UNIMPLEMENTED")
    [] instr.op = "Int32Add" -> WRITE_BYTE(s, 106)
    [] instr.op = "Constant" -> WRITE_UNSIGNED(WRITE_BYTE(s, 65), instr.value)
    [] instr.op = "If" -> WRITE_BYTE(s, 4)

\* The virtual call instr->OutputBinary(stream).
Instruction_OutputBinary(s, instr) ==
  CASE instr.op = "LocalGet" -> Abort(s, "UNIMPLEMENTED")
    [] instr.op = "LocalSet" -> Abort(s, "UNIMPLEMENTED")
    [] instr.op = "Int32Add" -> WRITE_BYTE(s, 106)
    [] instr.op = "Constant" -> WRITE_UNSIGNED(WRITE_BYTE(s, 65), instr.value)
    [] instr.op = "If" -> Abort(s, "UNIMPLEMENTED")

RECURSIVE InstructionList_OutputBinary(_, _, _)
InstructionList_OutputBinary(s, instructions, i) ==
  IF i > Len(instructions) THEN s
  ELSE InstructionList_OutputBinary(Instruction_OutputBinary(s, instructions[i]),
                                    instructions, i + 1)

\* for (Local* local : locals_) { WRITE_BYTE(1); local->type_->OutputBinary }.
RECURSIVE OutputLocals(_, _, _, _)
OutputLocals(s, ts, locals, i) ==
  IF i > Len(locals) THEN s
  ELSE OutputLocals(ValueType_OutputBinary(WRITE_BYTE(s, 1), ts, locals[i].type),
                    ts, locals, i + 1)

Function_OutputBinary(s, ts, f) ==
  LET s1 == WRITE_UNSIGNED(s, Len(f.locals))
      s2 == OutputLocals(s1, ts, f.locals, 1)
      s3 == IF f.body.present
            THEN InstructionList_OutputBinary(s2, f.body.instructions, 1)
            ELSE WasmTrace(s2, "WASM MISSING FUNCTION BODY OMITTED!\n")
  IN WRITE_BYTE(s3, 11)

\* A plausible slip: the function index is taken from the type list.
WasmModuleBuilder_AddFunction_TypeCount(fs, ts, name, type) ==
  Append(fs, Function(name, Len(ts), type))

WasmModuleBuilder_AddFunction(fs, ts, name, type) ==
  Append(fs, Function(name, Len(fs), type))

\* A plausible slip: the new local is put in front of the list.
Function_AddLocal_Front(f, kind, type, name) ==
  [f EXCEPT !.locals = <<Local(kind, type, name, Len(f.locals))>> \o f.locals]

Function_AddLocal(f, kind, type, name) ==
  [f EXCEPT !.locals = Append(f.locals, Local(kind, type, name, Len(f.locals)))]

\* A plausible slip: the new field is put in front of the list.
StructType_AddField_Front(t, field_type) ==
  [t EXCEPT !.fields = <<Field(field_type, Len(t.fields))>> \o t.fields]

StructType_AddField(t, field_type) ==
  [t EXCEPT !.fields = Append(t.fields, Field(field_type, Len(t.fields)))]

FuncType_AddParam(t, param_type) ==
  [t EXCEPT !.param_types = Append(t.param_types, param_type)]

-----------------------------------------------------------------------------
(* The sections and the module.                                            *)

RECURSIVE OutputDefTypes(_, _, _)
OutputDefTypes(s, ts, i) ==
  IF i > Len(ts) THEN s
  ELSE OutputDefTypes(DefType_OutputBinary(s, ts, ts[i]), ts, i + 1)

WasmModuleBuilder_OutputTypeSection(s, ts) ==
  LET s1 == WRITE_BYTE(s, 1)
      s2 == PushBytecountFrontScope(s1)
      s3 == WRITE_UNSIGNED(s2, Len(ts))
  IN LeaveBytecountFrontScope(OutputDefTypes(s3, ts, 1))

RECURSIVE OutputTypeIndices(_, _, _, _)
OutputTypeIndices(s, ts, fs, i) ==
  IF i > Len(fs) THEN s
  ELSE OutputTypeIndices(WRITE_UNSIGNED(s, ts[fs[i].type].index), ts, fs, i + 1)

\* A plausible slip: the count written is the number of types.
WasmModuleBuilder_OutputFunctionSection_TypeCount(s, ts, fs) ==
  LET s1 == WRITE_BYTE(s, 3)
      s2 == PushBytecountFrontScope(s1)
      s3 == WRITE_UNSIGNED(s2, Len(ts))
  IN LeaveBytecountFrontScope(OutputTypeIndices(s3, ts, fs, 1))

WasmModuleBuilder_OutputFunctionSection(s, ts, fs) ==
  LET s1 == WRITE_BYTE(s, 3)
      s2 == PushBytecountFrontScope(s1)
      s3 == WRITE_UNSIGNED(s2, Len(fs))
  IN LeaveBytecountFrontScope(OutputTypeIndices(s3, ts, fs, 1))

\* The loop body of OutputCodeSection: a scope of its own for each function.
RECURSIVE OutputFunctionCodes(_, _, _, _)
OutputFunctionCodes(s, ts, fs, i) ==
  IF i > Len(fs) THEN s
  ELSE OutputFunctionCodes(
           LeaveBytecountFrontScope(
               Function_OutputBinary(PushBytecountFrontScope(s), ts, fs[i])),
           ts, fs, i + 1)

\* A plausible slip: the count is left out when there is no function.
WasmModuleBuilder_OutputCodeSection_NoCount(s, ts, fs) ==
  LET s1 == WRITE_BYTE(s, 10)
      s2 == PushBytecountFrontScope(s1)
      s3 == IF Len(fs) = 0 THEN s2 ELSE WRITE_UNSIGNED(s2, Len(fs))
  IN LeaveBytecountFrontScope(OutputFunctionCodes(s3, ts, fs, 1))

WasmModuleBuilder_OutputCodeSection(s, ts, fs) ==
  LET s1 == WRITE_BYTE(s, 10)
      s2 == PushBytecountFrontScope(s1)
      s3 == WRITE_UNSIGNED(s2, Len(fs))
  IN LeaveBytecountFrontScope(OutputFunctionCodes(s3, ts, fs, 1))

\* A plausible slip: the version is written as one LEB128 number.
OutputMagicAndVersion_ShortVersion(s) ==
  LET s1 == WRITE_BYTE(WRITE_BYTE(WRITE_BYTE(WRITE_BYTE(s, 0), 97), 115), 109)
  IN WRITE_UNSIGNED(s1, 1)

\* Magic "\0asm" and version 1.
OutputMagicAndVersion(s) ==
  LET s1 == WRITE_BYTE(WRITE_BYTE(WRITE_BYTE(WRITE_BYTE(s, 0), 97), 115), 109)
  IN WRITE_BYTE(WRITE_BYTE(WRITE_BYTE(WRITE_BYTE(s1, 1), 0), 0), 0)

\* A plausible slip: the code section is written before the function section.
WasmModuleBuilder_OutputBinary_CodeFirst(s, ts, fs) ==
  LET s1 == OutputMagicAndVersion(s)
      s2 == WasmModuleBuilder_OutputTypeSection(s1, ts)
      s3 == WasmModuleBuilder_OutputCodeSection(s2, ts, fs)
  IN WasmModuleBuilder_OutputFunctionSection(s3, ts, fs)

WasmModuleBuilder_OutputBinary(s, ts, fs) ==
  LET s1 == OutputMagicAndVersion(s)
      s2 == WasmModuleBuilder_OutputTypeSection(s1, ts)
      s3 == WasmModuleBuilder_OutputFunctionSection(s2, ts, fs)
  IN WasmModuleBuilder_OutputCodeSection(s3, ts, fs)

-----------------------------------------------------------------------------
(* The text form: Serialize of the types, instructions, functions and of   *)
(* the module.                                                             *)

NumType_Serialize(t) ==
  CASE t.kind = "kI32" -> SExpSymbol("i32")
    [] t.kind = "kI64" -> SExpSymbol("i64")
    [] t.kind = "kF32" -> SExpSymbol("f32")
    [] t.kind = "kF64" -> SExpSymbol("f64")
    [] t.kind = "kV128" -> SExpSymbol("v128")

Rtt_Serialize(ts, r) ==
  SExpList(<<SExpSymbol("rtt"), SExpInteger(r.depth),
             HeapType_Serialize(ts, r.heap_type)>>)

\* The virtual call type->Serialize(zone) on a ValueType*.
ValueType_Serialize(ts, t) ==
  CASE t.tag = "NumType" -> NumType_Serialize(t)
    [] t.tag = "RefType" -> RefType_Serialize(ts, t)
    [] t.tag = "Rtt" -> Rtt_Serialize(ts, t)

FieldType_Serialize(ts, f) ==
  LET sexp == CASE f.packed_type = "kNoType" -> ValueType_Serialize(ts, f.value_type)
                [] f.packed_type = "kI8" -> SExpSymbol("i8")
                [] f.packed_type = "kI16" -> SExpSymbol("i16")
  IN IF f.mut THEN SExpList(<<SExpSymbol("mut"), sexp>>) ELSE sexp

Field_Serialize(ts, f) == FieldType_Serialize(ts, f.field_type)

FuncType_Serialize(ts, t) ==
  SExpList(<<SExpSymbol("func")>>
           \o [i \in 1 .. Len(t.param_types) |->
                 SExpList(<<SExpSymbol("param"),
                            ValueType_Serialize(ts, t.param_types[i])>>)]
           \o <<SExpList(<<SExpSymbol("result"),
                           ValueType_Serialize(ts, t.result_type)>>)>>)

StructType_Serialize(ts, t) ==
  SExpList(<<SExpSymbol("struct")>>
           \o [i \in 1 .. Len(t.fields) |-> Field_Serialize(ts, t.fields[i])])

ArrayType_Serialize(ts, t) ==
  SExpList(<<SExpSymbol("array"), FieldType_Serialize(ts, t.field_type)>>)

\* The virtual call def_type->Serialize(zone).
DefType_Serialize(ts, t) ==
  CASE t.kind = "FuncType" -> FuncType_Serialize(ts, t)
    [] t.kind = "StructType" -> StructType_Serialize(ts, t)
    [] t.kind = "ArrayType" -> ArrayType_Serialize(ts, t)

\* If::Serialize, given the serialized branches: the else symbol and the
\* otherwise branch are added to sexp_then; sexp_otherwise stays empty.
If_Serialize(then_branch, otherwise_branch) ==
  LET sexp_then == SExpList(<<SExpSymbol("then"), then_branch,
                              SExpSymbol("else"), otherwise_branch>>)
      sexp_otherwise == SExpList(<<>>)
  IN SExpList(<<SExpSymbol("if"), sexp_then, sexp_otherwise>>)

\* The virtual call instr->Serialize(zone); locals is the locals_ list that
\* a Local* points into.
RECURSIVE Instruction_Serialize(_, _)
InstructionList_Serialize(locals, instructions) ==
  SExpList([i \in 1 .. Len(instructions) |->
              Instruction_Serialize(locals, instructions[i])])

Instruction_Serialize(locals, instr) ==
  CASE instr.op = "LocalGet" ->
         SExpSymbol("local.get $" \o locals[instr.local].name)
    [] instr.op = "LocalSet" ->
         SExpSymbol("local.set $" \o locals[instr.local].name)
    [] instr.op = "Int32Add" -> SExpSymbol("i32.add")
    [] instr.op = "Constant" -> SExpSymbol("i32.const " \o ToString(instr.value))
    [] instr.op = "If" ->
         If_Serialize(InstructionList_Serialize(locals, instr.then_),
                      InstructionList_Serialize(locals, instr.otherwise_))

Local_Serialize(ts, l) ==
  SExpList(<<SExpSymbol(IF l.kind = "kLocal" THEN "local" ELSE "param")>>
           \o (IF l.name # "" THEN <<SExpSymbol("$" \o l.name)>> ELSE <<>>)
           \o <<ValueType_Serialize(ts, l.type)>>)

Function_Serialize(ts, f) ==
  LET locals == SelectSeq(f.locals, LAMBDA l : l.kind = "kLocal")
  IN SExpList(<<SExpSymbol("func")>>
              \o (IF f.name # "" THEN <<SExpSymbol("$" \o f.name)>> ELSE <<>>)
              \o <<SExpList(<<SExpSymbol("type"), SExpInteger(ts[f.type].index)>>)>>
              \o [i \in 1 .. Len(locals) |-> Local_Serialize(ts, locals[i])]
              \o <<IF f.body.present
                   THEN InstructionList_Serialize(f.locals, f.body.instructions)
                   ELSE SExpSymbol("<missing body>")>>)

WasmModuleBuilder_Serialize(ts, fs) ==
  SExpList(<<SExpSymbol("module")>>
           \o [i \in 1 .. Len(ts) |->
                 SExpList(<<SExpSymbol("type"), DefType_Serialize(ts, ts[i])>>)]
           \o [i \in 1 .. Len(fs) |-> Function_Serialize(ts, fs[i])])

-----------------------------------------------------------------------------
(* SpecAny: one object that holds a heap type (a HeapType, a RefType, an   *)
(* Rtt, a FieldType or a composite type) is emitted as binary and as text. *)

\* The largest depth of an Rtt.
MaxRttDepth == 2

AnyHeapTypes == {HeapType("kAny"), HeapType("kEq")}

AnyValueTypes ==
  {MakeRefType(nullable, h) : nullable \in BOOLEAN, h \in AnyHeapTypes}
    \cup {Rtt(depth, h) : depth \in 0 .. MaxRttDepth, h \in AnyHeapTypes}

AnyFieldTypes == {MakeFieldType(v, mut) : v \in AnyValueTypes, mut \in BOOLEAN}

\* A function type with the value type as result or as second parameter, a
\* struct with the field type as second field, an array of the field type.
AnyDefTypes ==
  {FuncType(0, v) : v \in AnyValueTypes}
    \cup {FuncType_AddParam(FuncType_AddParam(FuncType(0, NumType("kI32")),
                                              NumType("kI32")), v) :
            v \in AnyValueTypes}
    \cup {StructType_AddField(
              StructType_AddField(StructType(0), MakePackedFieldType("kI8", FALSE)),
              f) : f \in AnyFieldTypes}
    \cup {ArrayType(0, f) : f \in AnyFieldTypes}

AnyInit ==
  /\ IdleBuilder /\ IdleScope
  /\ \E target \in {WriteStream(kScopeInitialSize), WriteByte(WriteStream(1), 170)} :
       \/ \E h \in AnyHeapTypes :
            arg = [class |-> "HeapType", obj |-> h, target |-> target]
       \/ \E v \in AnyValueTypes :
            arg = [class |-> "ValueType", obj |-> v, target |-> target]
       \/ \E f \in AnyFieldTypes :
            arg = [class |-> "FieldType", obj |-> f, target |-> target]
       \/ \E t \in AnyDefTypes :
            arg = [class |-> "DefType", obj |-> t, target |-> target]
  /\ res = <<>>
  /\ pc = "serialize"

\* obj->Serialize(zone).
AnySerialize ==
  /\ pc = "serialize"
  /\ res' = [text |->
               CASE arg.class = "HeapType" -> HeapType_Serialize(<<>>, arg.obj)
                 [] arg.class = "ValueType" -> ValueType_Serialize(<<>>, arg.obj)
                 [] arg.class = "FieldType" -> FieldType_Serialize(<<>>, arg.obj)
                 [] arg.class = "DefType" -> DefType_Serialize(<<arg.obj>>, arg.obj)]
  /\ pc' = "output"
  /\ RefFrame

\* obj->OutputBinary(stream).
AnyOutputBinary ==
  /\ pc = "output"
  /\ LET s == StreamState(arg.target)
     IN res' = [text |-> res.text,
                binary |->
                  CASE arg.class = "HeapType" -> HeapType_OutputBinary(s, <<>>, arg.obj)
                    [] arg.class = "ValueType" -> ValueType_OutputBinary(s, <<>>, arg.obj)
                    [] arg.class = "FieldType" -> FieldType_OutputBinary(s, <<>>, arg.obj)
                    [] arg.class = "DefType" ->
                         DefType_OutputBinary(s, <<arg.obj>>, arg.obj)]
  /\ pc' = "done"
  /\ RefFrame

AnyNext == AnySerialize \/ AnyOutputBinary

SpecAny == AnyInit /\ [][AnyNext]_vars

\* Whether the object holds the heap type Any.
ValueTypeHoldsAny(v) == v.tag \in {"RefType", "Rtt"} /\ v.heap_type.kind = "kAny"
FieldTypeHoldsAny(f) == f.packed_type = "kNoType" /\ ValueTypeHoldsAny(f.value_type)
DefTypeHoldsAny(t) ==
  \/ \E i \in 1 .. Len(t.param_types) : ValueTypeHoldsAny(t.param_types[i])
  \/ t.kind = "FuncType" /\ ValueTypeHoldsAny(t.result_type)
  \/ \E i \in 1 .. Len(t.fields) : FieldTypeHoldsAny(t.fields[i].field_type)
  \/ t.kind = "ArrayType" /\ FieldTypeHoldsAny(t.field_type)

HoldsAny(a) ==
  CASE a.class = "HeapType" -> a.obj.kind = "kAny"
    [] a.class = "ValueType" -> ValueTypeHoldsAny(a.obj)
    [] a.class = "FieldType" -> FieldTypeHoldsAny(a.obj)
    [] a.class = "DefType" -> DefTypeHoldsAny(a.obj)

\* The names of the symbols of an S-expression.
RECURSIVE SExpSymbols(_)
SExpSymbols(sexp) ==
  IF sexp.sexp = "symbol" THEN {sexp.name}
  ELSE UNION {SExpSymbols(sexp.items[i]) : i \in 1 .. Len(sexp.items)}

\* C14: binary emission of an object that holds the heap type Any, be it
\* the HeapType itself, a RefType (the nullable anyref included), an Rtt, a
\* field type or a function, struct or array type, ends in the fatal error
\* and no stream ever receives the tag byte 0x6E of Any; the bytes the
\* target held before are unchanged.  Text emission of the same object
\* succeeds: the heap type is the symbol any, the nullable RefType the
\* symbol anyref, and a containing object holds one of the two.
C14_AnyIsFatal ==
  HoldsAny(arg) =>
    /\ pc \in {"output", "done"} =>
         /\ SExpSymbols(res.text) \cap {"any", "anyref"} # {}
         /\ arg.class = "HeapType" => res.text = SExpSymbol("any")
         /\ (arg.class = "ValueType" /\ arg.obj.tag = "RefType" /\ arg.obj.nullable)
              => res.text = SExpSymbol("anyref")
    /\ pc = "done" =>
         /\ res.binary.status = "FATAL"
         /\ \A m \in 1 .. Len(res.binary.mem) :
              \A i \in 1 .. Len(res.binary.mem[m].buffer) :
                res.binary.mem[m].buffer[i] # 110
         /\ SubSeq(res.binary.mem[1].buffer, 1, Len(arg.target.buffer))
              = arg.target.buffer

\* Witness of C14: a struct whose second field is a mutable Rtt over Any
\* was emitted; the bytes before the heap type were written, then the abort.
C14_Witness ==
  /\ pc = "done"
  /\ arg.class = "DefType" /\ arg.obj.kind = "StructType"
  /\ arg.obj.fields[2].field_type = MakeFieldType(Rtt(1, HeapType("kAny")), TRUE)
  /\ arg.target.buffer = <<170>>
  /\ res.binary.status = "FATAL"
  /\ res.binary.mem[1].buffer = <<170, 95, 2, 122, 0, 105, 1>>

-----------------------------------------------------------------------------
(* Spec: a client of one WasmModuleBuilder.  It calls the factory           *)
(* operations in any order and OutputBinary or Serialize at any time.      *)
(* `out` holds the target stream of an OutputBinary call, or the result    *)
(* of a Serialize call, until the next operation.                          *)

\* Objects the builder may own: types, params, fields, functions, locals
\* and instructions.
MaxObjects == 4

RECURSIVE Sum(_)
Sum(seq) == IF seq = <<>> THEN 0 ELSE seq[1] + Sum(Tail(seq))

Objects ==
  Sum([i \in 1 .. Len(types) |->
         1 + Len(types[i].param_types) + Len(types[i].fields)])
  + Sum([i \in 1 .. Len(functions) |->
           1 + Len(functions[i].locals) + Len(functions[i].body.instructions)])

\* The arguments the client passes.
ValueTypeArgs ==
  {NumType("kI32"), MakeRefType(TRUE, HeapType("kAny"))}
PackedTypeArgs == {"kI8"}
\* The mut argument passed along with a ValueType* and with a PackedType.
MutOfValueTypeArgs == {TRUE}
MutOfPackedTypeArgs == {FALSE}
FieldTypeArgs ==
  {MakeFieldType(NumType("kI32"), TRUE), MakePackedFieldType("kI8", FALSE)}
FunctionNames == {"main"}
LocalNames == {"x"}
ConstantArgs == {42}
\* The stream handed to OutputBinary: a fresh one, or one already written to.
TargetStreams == {WriteStream(kScopeInitialSize), WriteByte(WriteStream(1), 170)}

FuncTypes == {t \in 1 .. Len(types) : types[t].kind = "FuncType"}
StructTypes == {t \in 1 .. Len(types) : types[t].kind = "StructType"}

Init ==
  /\ types = <<>>
  /\ functions = <<>>
  /\ proc = "running"
  /\ out = NoOutput
  /\ IdleScope /\ IdleCall

Frame == UNCHANGED <<ws, entered, closed, budget, arg, res, pc>>

\* A factory operation: the process keeps running, no emission is pending.
CanBuild == proc = "running" /\ Objects < MaxObjects
Built == proc' = proc /\ out' = NoOutput /\ Frame

MakeFuncType ==
  /\ CanBuild
  /\ \E result_type \in ValueTypeArgs :
       types' = WasmModuleBuilder_MakeFuncType(types, result_type)
  /\ UNCHANGED functions
  /\ Built

AddParam ==
  /\ CanBuild
  /\ \E t \in FuncTypes, param_type \in ValueTypeArgs :
       types' = [types EXCEPT ![t] = FuncType_AddParam(types[t], param_type)]
  /\ UNCHANGED functions
  /\ Built

MakeStructType ==
  /\ CanBuild
  /\ types' = WasmModuleBuilder_MakeStructType(types)
  /\ UNCHANGED functions
  /\ Built

\* StructType::AddField(FieldType*).
AddField ==
  /\ CanBuild
  /\ \E t \in StructTypes, field_type \in FieldTypeArgs :
       types' = [types EXCEPT ![t] = StructType_AddField(types[t], field_type)]
  /\ UNCHANGED functions
  /\ Built

\* StructType::AddField(ValueType*, bool).
AddFieldOfValueType ==
  /\ CanBuild
  /\ \E t \in StructTypes, value_type \in ValueTypeArgs, mut \in MutOfValueTypeArgs :
       types' = [types EXCEPT ![t] =
                   StructType_AddField(types[t], MakeFieldType(value_type, mut))]
  /\ UNCHANGED functions
  /\ Built

\* StructType::AddField(FieldType::PackedType, bool).
AddFieldOfPackedType ==
  /\ CanBuild
  /\ \E t \in StructTypes, packed_type \in PackedTypeArgs, mut \in MutOfPackedTypeArgs :
       types' = [types EXCEPT ![t] =
                   StructType_AddField(types[t], MakePackedFieldType(packed_type, mut))]
  /\ UNCHANGED functions
  /\ Built

\* MakeArrayType(FieldType*), MakeArrayType(ValueType*, bool) and
\* MakeArrayType(FieldType::PackedType, bool).
MakeArrayType ==
  /\ CanBuild
  /\ \/ \E field_type \in FieldTypeArgs :
          types' = WasmModuleBuilder_MakeArrayType(types, field_type)
     \/ \E value_type \in ValueTypeArgs, mut \in MutOfValueTypeArgs :
          types' = WasmModuleBuilder_MakeArrayType(types, MakeFieldType(value_type, mut))
     \/ \E packed_type \in PackedTypeArgs, mut \in MutOfPackedTypeArgs :
          types' = WasmModuleBuilder_MakeArrayType(
                       types, MakePackedFieldType(packed_type, mut))
  /\ UNCHANGED functions
  /\ Built

AddFunction ==
  /\ CanBuild
  /\ \E name \in FunctionNames, type \in FuncTypes :
       functions' = WasmModuleBuilder_AddFunction(functions, types, name, type)
  /\ UNCHANGED types
  /\ Built

\* No Param follows a Local in the list.
ParamsPrecedeLocals(locals) ==
  \A i, j \in 1 .. Len(locals) :
    i < j => ~(locals[i].kind = "kLocal" /\ locals[j].kind = "kParam")

\* Function::AddLocal.  When the ASSERT does not hold, a debug build aborts
\* and a release build, which compiles the ASSERT away, appends the local.
\* A process in which a Param already follows a Local is a release build.
AddLocal ==
  /\ proc = "running" /\ Objects < MaxObjects
  /\ \E f \in 1 .. Len(functions), kind \in {"kParam", "kLocal"},
        type \in ValueTypeArgs, name \in LocalNames :
       LET locals == functions[f].locals
           asserted == IF kind = "kLocal" \/ locals = <<>> THEN TRUE
                       ELSE locals[Len(locals)].kind = "kParam"
           added == [functions EXCEPT ![f] = Function_AddLocal(functions[f], kind, type, name)]
       IN \/ asserted /\ functions' = added /\ proc' = proc
          \/ ~asserted /\ functions' = added /\ proc' = proc
          \/ /\ ~asserted
             /\ \A g \in 1 .. Len(functions) : ParamsPrecedeLocals(functions[g].locals)
             /\ functions' = functions /\ proc' = "ASSERT"
  /\ out' = NoOutput
  /\ UNCHANGED types
  /\ Frame

\* Function::MakeNewBody: a new, empty list replaces the body.
MakeNewBody ==
  /\ proc = "running"
  /\ \E f \in 1 .. Len(functions) :
       /\ functions' = [functions EXCEPT ![f].body = InstructionList]
  /\ proc' = proc /\ out' = NoOutput
  /\ UNCHANGED types
  /\ Frame

Bodies == {f \in 1 .. Len(functions) : functions[f].body.present}

AddToBody(f, instr) ==
  functions' = [functions EXCEPT ![f].body.instructions = Append(@, instr)]

AddLocalGet ==
  /\ CanBuild
  /\ \E f \in Bodies : \E local \in 1 .. Len(functions[f].locals) :
       AddToBody(f, LocalGet(local))
  /\ UNCHANGED types
  /\ Built

AddLocalSet ==
  /\ CanBuild
  /\ \E f \in Bodies : \E local \in 1 .. Len(functions[f].locals) :
       AddToBody(f, LocalSet(local))
  /\ UNCHANGED types
  /\ Built

AddInt32Add ==
  /\ CanBuild
  /\ \E f \in Bodies : AddToBody(f, Int32Add)
  /\ UNCHANGED types
  /\ Built

AddConstant ==
  /\ CanBuild
  /\ \E f \in Bodies, value \in ConstantArgs : AddToBody(f, Constant(value))
  /\ UNCHANGED types
  /\ Built

AddIf ==
  /\ CanBuild
  /\ \E f \in Bodies : AddToBody(f, If)
  /\ UNCHANGED types
  /\ Built

\* WasmModuleBuilder::OutputBinary(stream), in a process started with the
\* trace flag set or not.  A fatal error aborts the process with the streams
\* as they are at that moment.
OutputBinary ==
  /\ proc = "running"
  /\ \E target \in TargetStreams, flag \in BOOLEAN :
       /\ out' = [called |-> TRUE, start |-> Position(target),
                   ws |-> WasmModuleBuilder_OutputBinary(
                              TracedStreamState(target, flag), types, functions),
                   text |-> <<>>]
       /\ proc' = IF out'.ws.status = "ok" THEN "running" ELSE out'.ws.status
  /\ UNCHANGED <<types, functions>>
  /\ Frame

\* WasmModuleBuilder::Serialize(zone): out.text holds the S-expression.
Serialize ==
  /\ proc = "running"
  /\ out' = [NoOutput EXCEPT !.text = <<WasmModuleBuilder_Serialize(types, functions)>>]
  /\ proc' = proc
  /\ UNCHANGED <<types, functions>>
  /\ Frame

Next ==
  \/ MakeFuncType
  \/ AddParam
  \/ MakeStructType
  \/ AddField
  \/ AddFieldOfValueType
  \/ AddFieldOfPackedType
  \/ MakeArrayType
  \/ AddFunction
  \/ AddLocal
  \/ MakeNewBody
  \/ AddLocalGet
  \/ AddLocalSet
  \/ AddInt32Add
  \/ AddConstant
  \/ AddIf
  \/ OutputBinary
  \/ Serialize

Spec == Init /\ [][Next]_vars

-----------------------------------------------------------------------------
(* The claims about the builder.                                           *)

\* C3: composite types are indexed by registration order.  At every moment
\* the i-th registered type (counting from 0) carries index i, whichever of
\* MakeFuncType, MakeStructType and MakeArrayType made it; the list only
\* grows at its end and no registered type changes its index or its kind.
C3_TypeIndices ==
  /\ [](\A i \in 1 .. Len(types) : types[i].index = i - 1)
  /\ [][/\ Len(types') >= Len(types)
        /\ \A i \in 1 .. Len(types) :
             /\ types'[i].index = types[i].index
             /\ types'[i].kind = types[i].kind]_vars

\* Witness of C3: three types of three kinds were registered, interleaved.
C3_Witness ==
  /\ Len(types) = 3
  /\ types[1].kind = "StructType" /\ types[2].kind = "ArrayType"
  /\ types[3].kind = "FuncType" /\ types[3].index = 2

\* C4: functions are indexed by insertion order.  At every moment the i-th
\* function added (counting from 0) carries index i, however many types are
\* registered, and its type is one of the builder's registered types; the
\* list only grows at its end and no function changes its index or type.
C4_FunctionIndices ==
  /\ [](\A i \in 1 .. Len(functions) :
          /\ functions[i].index = i - 1
          /\ functions[i].type \in 1 .. Len(types)
          /\ types[functions[i].type].kind = "FuncType")
  /\ [][/\ Len(functions') >= Len(functions)
        /\ \A i \in 1 .. Len(functions) :
             /\ functions'[i].index = functions[i].index
             /\ functions'[i].type = functions[i].type]_vars

\* Witness of C4: a second type was registered between two AddFunction
\* calls; the second function has index 1 and the second type.
C4_Witness ==
  /\ Len(functions) = 2 /\ Len(types) = 2
  /\ functions[1].type = 1 /\ functions[1].index = 0
  /\ functions[2].type = 2 /\ functions[2].index = 1

\* The bytes the OutputBinary call appended to its target stream.
Emitted ==
  SubSeq(out.ws.mem[1].buffer, out.start + 1, Len(out.ws.mem[1].buffer))

EmittedModule == out.called /\ out.ws.status = "ok"

\* The LEB128 number that starts at position p of b, and the position after
\* it; value -1 when b ends before the number does.
RECURSIVE UlebAt(_, _)
UlebAt(b, p) ==
  IF p > Len(b) THEN [value |-> -1, next |-> p]
  ELSE IF b[p] < 128 THEN [value |-> b[p], next |-> p + 1]
  ELSE LET r == UlebAt(b, p + 1)
       IN [value |-> IF r.value < 0 THEN -1 ELSE (b[p] - 128) + 128 * r.value,
           next |-> r.next]

\* The section that starts at position p of b: its id byte, the length that
\* follows it, where its body starts and where the next section starts.
SectionAt(b, p) ==
  LET u == UlebAt(b, p + 1)
  IN [id |-> IF p <= Len(b) THEN b[p] ELSE -1,
      len |-> u.value,
      body |-> u.next,
      next |-> u.next + u.value]

WellFormedSection(b, p, id) ==
  LET sec == SectionAt(b, p)
  IN /\ sec.id = id
     /\ sec.len >= 0
     /\ sec.next <= Len(b) + 1
     /\ SubSeq(b, p + 1, sec.body - 1) = UlebEncoding(sec.len)

\* C7: whatever the builder holds, the bytes OutputBinary appends to its
\* target stream begin with 00 61 73 6D 01 00 00 00.
C7_MagicAndVersion ==
  out.called =>
    /\ Len(Emitted) >= 8
    /\ SubSeq(Emitted, 1, 8) = <<0, 97, 115, 109, 1, 0, 0, 0>>

\* Witness of C7: a module with a type and a function was emitted to a
\* stream that already held a byte.
C7_Witness ==
  /\ EmittedModule
  /\ out.start = 1
  /\ Len(types) >= 1 /\ Len(functions) >= 1

\* C8: an emitted module consists, after magic and version, of exactly the
\* sections 1, 3 and 10 in this order, each an id byte followed by the
\* ULEB128 length of its body and by the body, each starting right where the
\* one before it ends, the last ending where the output ends.
C8_SectionOrder ==
  EmittedModule =>
    LET b == Emitted
        type_section == SectionAt(b, 9)
        function_section == SectionAt(b, type_section.next)
        code_section == SectionAt(b, function_section.next)
    IN /\ WellFormedSection(b, 9, 1)
       /\ WellFormedSection(b, type_section.next, 3)
       /\ WellFormedSection(b, function_section.next, 10)
       /\ code_section.next = Len(b) + 1

\* Witness of C8: a module was emitted whose three sections all hold an
\* entry.
C8_Witness ==
  /\ EmittedModule
  /\ Len(types) >= 1 /\ Len(functions) >= 1
  /\ SectionAt(Emitted, 9).len >= 5
  /\ SectionAt(Emitted, SectionAt(Emitted, 9).next).id = 3

\* C9: a builder with no type and no function emits exactly
\* 00 61 73 6D 01 00 00 00 01 01 00 03 01 00 0A 01 00.
C9_EmptyModule ==
  (out.called /\ types = <<>> /\ functions = <<>>) =>
    /\ out.ws.status = "ok"
    /\ Emitted = <<0, 97, 115, 109, 1, 0, 0, 0, 1, 1, 0, 3, 1, 0, 10, 1, 0>>

\* Witness of C9: the empty builder emitted 17 bytes after the byte its
\* target already held.
C9_Witness ==
  /\ out.called /\ types = <<>> /\ functions = <<>>
  /\ out.start = 1
  /\ Len(out.ws.mem[1].buffer) = 18

\* The payloads of the entries of the code section body that starts at p, k
\* of them: each entry is a ULEB128 length and that many bytes.
RECURSIVE CodeEntries(_, _, _)
CodeEntries(b, p, k) ==
  IF k = 0 THEN <<>>
  ELSE LET u == UlebAt(b, p)
       IN <<SubSeq(b, u.next, u.next + u.value - 1)>>
          \o CodeEntries(b, u.next + u.value, k - 1)

EmittedCodeEntries ==
  LET b == Emitted
      code_section ==
        SectionAt(b, SectionAt(b, SectionAt(b, 9).next).next)
      count == UlebAt(b, code_section.body)
  IN CodeEntries(b, count.next, count.value)

\* The locals of kind Local, in order.
NonParamLocals(f) == SelectSeq(f.locals, LAMBDA l : l.kind = "kLocal")

EncodedValueType(t) ==
  ValueType_OutputBinary(StreamState(WriteStream(kScopeInitialSize)), types, t)
    .mem[1].buffer

RECURSIVE LocalGroups(_)
LocalGroups(locals) ==
  IF locals = <<>> THEN <<>>
  ELSE <<1>> \o EncodedValueType(locals[1].type) \o LocalGroups(Tail(locals))

\* C6: in the binary form of a function the count of local groups is N, the
\* number of locals of kind Local (parameters are not counted), and exactly
\* N groups follow, each the count 1 and the value type of one such local.
C6_LocalGroupsExcludeParams ==
  EmittedModule =>
    \A i \in 1 .. Len(functions) :
      LET payload == EmittedCodeEntries[i]
          locals == NonParamLocals(functions[i])
          expected == UlebEncoding(Len(locals)) \o LocalGroups(locals)
      IN /\ Len(payload) >= Len(expected)
         /\ SubSeq(payload, 1, Len(expected)) = expected

SerializedModule == out.text # <<>>
SerializedFunction(f) == out.text[1].items[1 + Len(types) + f]
SerializedInstruction(f, i) ==
  LET function == SerializedFunction(f)
  IN function.items[Len(function.items)].items[i]

\* C13: the text of an If instruction is a list of exactly three elements:
\* the symbol if, the list (then <then branch>) and the list
\* (else <else branch>); the else symbol and the else branch are in the
\* third element, which is therefore never empty.
C13_IfText ==
  SerializedModule =>
    \A f \in Bodies : \A i \in 1 .. Len(functions[f].body.instructions) :
      LET instr == functions[f].body.instructions[i]
          locals == functions[f].locals
          sexp == SerializedInstruction(f, i)
      IN instr.op = "If" =>
           /\ sexp.sexp = "list"
           /\ Len(sexp.items) = 3
           /\ sexp.items[1] = SExpSymbol("if")
           /\ sexp.items[2] =
                SExpList(<<SExpSymbol("then"),
                           InstructionList_Serialize(locals, instr.then_)>>)
           /\ sexp.items[3] =
                SExpList(<<SExpSymbol("else"),
                           InstructionList_Serialize(locals, instr.otherwise_)>>)

\* The stream the client handed to the OutputBinary call just made.
TargetOfOutput == CHOOSE target \in TargetStreams : Position(target) = out.start

\* C15: the trace flag changes only what is printed.  For every builder
\* state, the OutputBinary call just made with the flag set (or not) left
\* every stream, the caller's and those of the length-prefix scopes, with
\* the bytes, the length and the capacity the same call leaves with the flag
\* the other way round, and ended the same way.
C15_TraceFlagNeutral ==
  out.called =>
    LET other == WasmModuleBuilder_OutputBinary(
                     TracedStreamState(TargetOfOutput, ~out.ws.trace),
                     types, functions)
    IN /\ other.mem = out.ws.mem
       /\ other.stream = out.ws.stream
       /\ other.status = out.ws.status
       /\ ~out.ws.trace => out.ws.log = <<>>

\* Witness of C15: a module with one function without body was emitted
\* with the flag set; the closing scopes and the missing body were traced.
C15_Witness ==
  /\ EmittedModule
  /\ out.ws.trace
  /\ Len(functions) = 1 /\ ~functions[1].body.present
  /\ Len(out.ws.log) = 5
  /\ out.ws.log[3] = "WASM MISSING FUNCTION BODY OMITTED!\n"
  /\ out.ws.log[4] = "Copying 2 bytes to parent WriteStream.\n"

\* The bytes of a composite type as OutputBinary writes them, and where the
\* entry of the i-th type starts in the emitted module.
EncodedDefType(t) ==
  DefType_OutputBinary(StreamState(WriteStream(kScopeInitialSize)), types, t)
    .mem[1].buffer

RECURSIVE TypeEntryStart(_)
TypeEntryStart(i) ==
  IF i = 1 THEN UlebAt(Emitted, SectionAt(Emitted, 9).body).next
  ELSE TypeEntryStart(i - 1) + Len(EncodedDefType(types[i - 1]))

\* The binary form of a field as the format defines it: the storage type
\* (0x7A for i8, 0x79 for i16, else the value type), then the mut byte.
FieldTypeBytes(f) ==
  (CASE f.packed_type = "kI8" -> <<122>>
     [] f.packed_type = "kI16" -> <<121>>
     [] OTHER -> EncodedValueType(f.value_type))
    \o <<IF f.mut THEN 1 ELSE 0>>

RECURSIVE FieldsBytes(_)
FieldsBytes(fields) ==
  IF fields = <<>> THEN <<>>
  ELSE FieldTypeBytes(fields[1].field_type) \o FieldsBytes(Tail(fields))

StructBytes(t) == <<95>> \o UlebEncoding(Len(t.fields)) \o FieldsBytes(t.fields)

\* C16: in every struct type the i-th field added (counting from 0), by
\* whichever overload of AddField, carries field index i; fields are only
\* ever added at the end and keep their index and type; and the binary form
\* of the struct is 0x5F, the ULEB128 field count and the fields in that
\* same order.
C16_FieldIndices ==
  /\ [](\A t \in StructTypes : \A i \in 1 .. Len(types[t].fields) :
          types[t].fields[i].index = i - 1)
  /\ [][\A t \in StructTypes :
          /\ Len(types'[t].fields) >= Len(types[t].fields)
          /\ SubSeq(types'[t].fields, 1, Len(types[t].fields)) = types[t].fields]_vars
  /\ [](EmittedModule =>
          \A t \in StructTypes :
            SubSeq(Emitted, TypeEntryStart(t),
                   TypeEntryStart(t) + Len(StructBytes(types[t])) - 1)
              = StructBytes(types[t]))

\* Witness of C16: a struct got an i8 field and then a mutable i32 field,
\* through different overloads, and was emitted as 5F 02 7A 00 7F 01.
C16_Witness ==
  /\ EmittedModule
  /\ Len(types) = 1 /\ types[1].kind = "StructType"
  /\ Len(types[1].fields) = 2
  /\ types[1].fields[1].field_type = MakePackedFieldType("kI8", FALSE)
  /\ types[1].fields[2].index = 1
  /\ SubSeq(Emitted, 9, 17) = <<1, 7, 1, 95, 2, 122, 0, 127, 1>>

\* The encoding of a function on its own, and the entries the function and
\* the code section hold for the functions from the i-th on.
FunctionEncoding(f) ==
  Function_OutputBinary(StreamState(WriteStream(kScopeInitialSize)), types, f)
    .mem[1].buffer

RECURSIVE TypeIndexEntries(_)
TypeIndexEntries(i) ==
  IF i > Len(functions) THEN <<>>
  ELSE UlebEncoding(types[functions[i].type].index) \o TypeIndexEntries(i + 1)

RECURSIVE LengthPrefixedEntries(_)
LengthPrefixedEntries(i) ==
  IF i > Len(functions) THEN <<>>
  ELSE UlebEncoding(Len(FunctionEncoding(functions[i])))
         \o FunctionEncoding(functions[i]) \o LengthPrefixedEntries(i + 1)

SectionBody(b, sec) == SubSeq(b, sec.body, sec.next - 1)

\* The function () -> i32 with body i32.const 42, alone in its module.
IsConst42Module ==
  /\ Len(functions) = 1
  /\ types[functions[1].type].index = 0
  /\ types[functions[1].type].param_types = <<>>
  /\ types[functions[1].type].result_type = NumType("kI32")
  /\ functions[1].locals = <<>>
  /\ functions[1].body = [present |-> TRUE, instructions |-> <<Constant(42)>>]

\* C18: in an emitted module with n functions the bodies of the function
\* section and of the code section both start with ULEB n; the function
\* section then holds the ULEB type index of each function and the code
\* section each function's own encoding behind its ULEB byte length, both
\* in function-index order and nothing else; the length of the code section
\* is the size of the count plus the sum of the sizes of the prefixed
\* entries; and the function () -> i32 with body i32.const 42 gives the
\* function section 03 02 01 00 and the code entry payload 00 41 2A 0B.
C18_FunctionAndCodeSections ==
  EmittedModule =>
    LET b == Emitted
        n == Len(functions)
        function_section == SectionAt(b, SectionAt(b, 9).next)
        code_section == SectionAt(b, function_section.next)
    IN /\ SectionBody(b, function_section)
            = UlebEncoding(n) \o TypeIndexEntries(1)
       /\ SectionBody(b, code_section)
            = UlebEncoding(n) \o LengthPrefixedEntries(1)
       /\ code_section.len
            = Len(UlebEncoding(n))
              + Sum([i \in 1 .. n |->
                       Len(UlebEncoding(Len(FunctionEncoding(functions[i]))))
                       + Len(FunctionEncoding(functions[i]))])
       /\ IsConst42Module =>
            /\ SubSeq(b, SectionAt(b, 9).next, function_section.next - 1)
                 = <<3, 2, 1, 0>>
            /\ EmittedCodeEntries = <<(<<0, 65, 42, 11>>)>>

\* Witness of C18: a module with one type and two functions, the second with
\* the body i32.const 42, was emitted.
C18_Witness ==
  /\ EmittedModule
  /\ Len(types) = 1 /\ Len(functions) = 2
  /\ functions[2].body.instructions = <<Constant(42)>>
  /\ SectionBody(Emitted, SectionAt(Emitted, SectionAt(Emitted, 9).next))
       = <<2, 0, 0>>

\* Whether the body of f holds a local.get, a local.set or an if, and
\* whether a parameter or local of f has a type over the heap type Any.
BodyHasUnimplemented(f) ==
  /\ f.body.present
  /\ \E k \in 1 .. Len(f.body.instructions) :
       f.body.instructions[k].op \in {"LocalGet", "LocalSet", "If"}

LocalsHoldAny(f) ==
  \E k \in 1 .. Len(f.locals) : ValueTypeHoldsAny(f.locals[k].type)

\* The emission reaches function i when nothing before it stopped the
\* process: no type holds Any and no function before i stops it.  It reaches
\* the body of function i when, besides, the locals of i do not stop it.
FunctionReached(i) ==
  /\ \A t \in 1 .. Len(types) : ~DefTypeHoldsAny(types[t])
  /\ \A j \in 1 .. i - 1 :
       ~LocalsHoldAny(functions[j]) /\ ~BodyHasUnimplemented(functions[j])

BodyReached(i) ==
  FunctionReached(i) /\ ~LocalsHoldAny(functions[i]) /\ functions[i].body.present

NotImplementedExactlyWhenReached ==
  out.ws.status = "UNIMPLEMENTED"
    <=> \E i \in 1 .. Len(functions) :
          BodyReached(i) /\ BodyHasUnimplemented(functions[i])

\* Function i, on its own, is emitted without error and ends with 0x0B; and
\* so does its entry in the code section of a module emitted completely.
EmittedWithEnd(i) ==
  LET e == Function_OutputBinary(StreamState(WriteStream(kScopeInitialSize)),
                                 types, functions[i])
  IN /\ e.status = "ok"
     /\ e.mem[1].buffer[Len(e.mem[1].buffer)] = 11
     /\ EmittedModule =>
          EmittedCodeEntries[i][Len(EmittedCodeEntries[i])] = 11

\* C19 as stated: emission ends in NotImplemented exactly when a function
\* body it reaches holds a local.get, local.set or if; and every function
\* whose body holds none of them (or is empty or absent), whatever params or
\* locals it declares, is emitted without error and ends with byte 0x0B.
C19_AsStated ==
  out.called =>
    /\ NotImplementedExactlyWhenReached
    /\ \A i \in 1 .. Len(functions) :
         ~BodyHasUnimplemented(functions[i]) => EmittedWithEnd(i)

\* C19: emission ends in NotImplemented exactly when a function body it
\* reaches holds a local.get, local.set or if; and every function whose body
\* holds none of them (or is empty or absent) and whose params and locals
\* have no type over the heap type Any is emitted without error and ends
\* with byte 0x0B.
C19_NotImplemented ==
  out.called =>
    /\ NotImplementedExactlyWhenReached
    /\ \A i \in 1 .. Len(functions) :
         (~BodyHasUnimplemented(functions[i]) /\ ~LocalsHoldAny(functions[i]))
           => EmittedWithEnd(i)

\* Witness of C19: a function with an i32 parameter whose body is one
\* local.get was emitted, and the emission ended in NotImplemented.
C19_Witness ==
  /\ out.called
  /\ out.ws.status = "UNIMPLEMENTED"
  /\ Len(functions) = 1
  /\ Len(functions[1].locals) = 1
  /\ functions[1].locals[1].kind = "kParam"
  /\ functions[1].locals[1].type = NumType("kI32")
  /\ Len(functions[1].body.instructions) = 1
  /\ functions[1].body.instructions[1].op = "LocalGet"

-----------------------------------------------------------------------------
(* SpecScope: a client holding one WriteStream* writes through it and      *)
(* opens and leaves WRITE_BYTECOUNT scopes, properly nested as C++ scopes  *)
(* are.                                                                    *)

\* Length of the byte run the client passes to WriteBytes.
BlockLen == 126

\* initial_size of the stream the client starts with.
TargetInitialSizes == {1, kScopeInitialSize}
ScopeBytes == {0, 255}
ScopeUnsigneds == {98, 300}
ScopeSigneds == {-16}
Block == [i \in 1 .. BlockLen |-> i % 2 ^ kBitsPerByte]

ScopeInit ==
  /\ IdleBuilder /\ IdleCall
  /\ \E initial_size \in TargetInitialSizes :
       ws = StreamState(WriteStream(initial_size))
  /\ entered = <<>>
  /\ closed = <<>>
  /\ budget = MaxOps

ScopeFrame == UNCHANGED <<types, functions, proc, out, arg, res, pc>>

ScopeWriteByte ==
  /\ budget > 0
  /\ \E m \in ScopeBytes : ws' = WRITE_BYTE(ws, m)
  /\ budget' = budget - 1
  /\ UNCHANGED <<entered, closed>>
  /\ ScopeFrame

ScopeWriteUnsigned ==
  /\ budget > 0
  /\ \E m \in ScopeUnsigneds : ws' = WRITE_UNSIGNED(ws, m)
  /\ budget' = budget - 1
  /\ UNCHANGED <<entered, closed>>
  /\ ScopeFrame

ScopeWriteSigned ==
  /\ budget > 0
  /\ \E m \in ScopeSigneds : ws' = WRITE_SIGNED(ws, m)
  /\ budget' = budget - 1
  /\ UNCHANGED <<entered, closed>>
  /\ ScopeFrame

ScopeWriteBytes ==
  /\ budget > 0
  /\ ws' = [ws EXCEPT !.mem[ws.stream] = WriteBytes(ws.mem[ws.stream], Block)]
  /\ budget' = budget - 1
  /\ UNCHANGED <<entered, closed>>
  /\ ScopeFrame

ScopeEnter ==
  /\ budget > 0
  /\ Len(ws.scopes) < MaxDepth
  /\ ws' = PushBytecountFrontScope(ws)
  /\ entered' = Append(entered, [stream |-> ws.stream,
                                 before |-> ws.mem[ws.stream].buffer])
  /\ budget' = budget - 1
  /\ UNCHANGED closed
  /\ ScopeFrame

\* Leaving a scope is not a choice of the client: it costs no budget.
ScopeLeave ==
  /\ Len(ws.scopes) >= 1
  /\ ws' = LeaveBytecountFrontScope(ws)
  /\ LET e == entered[Len(entered)]
     IN closed' = <<[depth |-> Len(ws.scopes),
                     enclosing |-> e.stream,
                     before |-> e.before,
                     payload |-> ws.mem[ws.stream].buffer,
                     after |-> ws'.mem[e.stream].buffer]>>
  /\ entered' = SubSeq(entered, 1, Len(entered) - 1)
  /\ UNCHANGED budget
  /\ ScopeFrame

ScopeNext ==
  \/ ScopeWriteByte
  \/ ScopeWriteUnsigned
  \/ ScopeWriteSigned
  \/ ScopeWriteBytes
  \/ ScopeEnter
  \/ ScopeLeave

SpecScope == ScopeInit /\ [][ScopeNext]_vars

\* C1: length-prefix law.  When a scope is left whose sub-stream holds a
\* payload of n bytes, the enclosing stream is what it was when the scope was
\* entered, followed by the ULEB128 encoding of n, followed by the n payload
\* bytes in order: it has grown by uleb_len(n) + n bytes.
C1_LengthPrefixLaw ==
  closed # <<>> =>
    LET c == closed[1]
        n == Len(c.payload)
    IN /\ Len(c.after) = Len(c.before) + UlebLen(n) + n
       /\ c.after = c.before \o UlebEncoding(n) \o c.payload

\* Witness of C1: a scope holding 128 bytes (a two-byte count) was left and
\* the enclosing stream held bytes before it was entered.
C1_Witness ==
  /\ closed # <<>>
  /\ Len(closed[1].payload) = 128
  /\ Len(closed[1].before) >= 1
  /\ Len(closed[1].after) = Len(closed[1].before) + 130

\* C2: properly bracketed scopes.  While a scope is open the stream pointer
\* designates the sub-stream of the innermost open scope, and a write changes
\* that stream and no other; entering a scope makes its fresh sub-stream the
\* active one; leaving a scope makes the stream that was active when it was
\* entered active again; with no scope open the active stream is the original.
C2_ScopesAreBracketed ==
  /\ [](Len(ws.scopes) >= 1 => ws.stream = ws.scopes[Len(ws.scopes)].new_stream)
  /\ [](Len(ws.scopes) = 0 => ws.stream = 1)
  /\ [][/\ Len(ws'.scopes) = Len(ws.scopes) =>
             /\ Len(ws'.mem) = Len(ws.mem)
             /\ \A i \in 1 .. Len(ws.mem) : i # ws.stream => ws'.mem[i] = ws.mem[i]
             /\ Len(ws'.mem[ws.stream].buffer) > Len(ws.mem[ws.stream].buffer)
        /\ Len(ws'.scopes) > Len(ws.scopes) =>
             /\ ws'.stream # ws.stream
             /\ ws'.mem[ws'.stream].buffer = <<>>
             /\ \A i \in 1 .. Len(ws.mem) : ws'.mem[i] = ws.mem[i]
        /\ Len(ws'.scopes) < Len(ws.scopes) =>
             ws'.stream = entered[Len(entered)].stream]_vars

\* Witness of C2: the inner of two nested scopes was left after a write and
\* the outer scope's sub-stream is active again.
C2_Witness ==
  /\ closed # <<>>
  /\ closed[1].depth = 2
  /\ Len(closed[1].payload) >= 1
  /\ Len(ws.scopes) = 1
  /\ ws.stream = closed[1].enclosing
  /\ ws.stream # 1

-----------------------------------------------------------------------------
(* SpecOom: the client of SpecScope with an allocator that fails.  arg     *)
(* holds the number of allocations that still succeed; after them alloc_   *)
(* returns NULL and the stream calls Exceptions::ThrowOOM.                 *)

\* Allocations that succeed before the allocator fails.
MaxAllocs == 3
\* Number of operations of a client run.
MaxOomOps == 4

\* (end_ - current_) < len, the test before Resize(len) in WriteBytes and
\* WriteFixed; for len = 1 it is the test current_ >= end_ of WriteByte.
NeedsResize(st, len) == st.current_size - Position(st) < len

\* The WriteByte calls of WriteUnsigned(value), one run of bytes per call.
WriteUnsignedCalls(value) ==
  LET bytes == WriteUnsigned(WriteStream(kScopeInitialSize), value).buffer
  IN [i \in 1 .. Len(bytes) |-> <<bytes[i]>>]

\* The write calls `calls` made on st while `allocs` allocations still
\* succeed.  The call whose Resize gets NULL from alloc_ raises the OOM
\* condition: it and the calls after it write nothing.
RECURSIVE WriteCalls(_, _, _)
WriteCalls(st, allocs, calls) ==
  IF calls = <<>> THEN [st |-> st, allocs |-> allocs, oom |-> FALSE]
  ELSE IF NeedsResize(st, Len(calls[1]))
  THEN IF allocs = 0
       THEN [st |-> st, allocs |-> allocs, oom |-> TRUE]
       ELSE WriteCalls(WriteBytes(st, calls[1]), allocs - 1, Tail(calls))
  ELSE WriteCalls(WriteBytes(st, calls[1]), allocs, Tail(calls))

\* Exceptions::ThrowOOM: the OOM condition leaves the operation in progress
\* at once; the unwind then releases the scopes that are still open,
\* innermost first, and hands the condition to the embedder.
ThrowOOM(s) == IF s.scopes = <<>> THEN "handled" ELSE "unwinding"

\* ~PushBytecountFrontScope() of the innermost scope with the failing
\* allocator: the two writes to old_stream_, then the assignment that
\* restores the stream pointer, which an OOM in the writes skips.
ReleaseBytecountFrontScope(s, allocs) ==
  LET scope == s.scopes[Len(s.scopes)]
      replacement_buffer == s.mem[scope.new_stream].buffer
      bytes_written == Position(s.mem[scope.new_stream])
      w == WriteCalls(s.mem[scope.old_stream], allocs,
                      WriteUnsignedCalls(bytes_written)
                        \o <<SubSeq(replacement_buffer, 1, bytes_written)>>)
  IN [s |-> [s EXCEPT !.mem[scope.old_stream] = w.st,
                      !.stream = IF w.oom THEN s.stream ELSE scope.old_stream,
                      !.scopes = SubSeq(s.scopes, 1, Len(s.scopes) - 1)],
      allocs |-> w.allocs,
      oom |-> w.oom]

OomInit ==
  /\ IdleBuilder
  /\ \E initial_size \in TargetInitialSizes :
       ws = StreamState(WriteStream(initial_size))
  /\ entered = <<>> /\ closed = <<>>
  /\ budget = MaxOomOps
  /\ \E allocs \in 0 .. MaxAllocs : arg = [allocs |-> allocs]
  /\ res = <<>>
  /\ pc = "running"

OomFrame == UNCHANGED <<types, functions, proc, out, entered, closed, res>>

\* A write call through the stream pointer.
OomWrite(calls) ==
  LET w == WriteCalls(ws.mem[ws.stream], arg.allocs, calls)
  IN /\ ws' = [ws EXCEPT !.mem[ws.stream] = w.st]
     /\ arg' = [allocs |-> w.allocs]
     /\ pc' = IF w.oom THEN ThrowOOM(ws) ELSE "running"

OomWriteByte ==
  /\ pc = "running" /\ budget > 0
  /\ \E m \in ScopeBytes : OomWrite(<<<<m>>>>)
  /\ budget' = budget - 1
  /\ OomFrame

OomWriteBytes ==
  /\ pc = "running" /\ budget > 0
  /\ OomWrite(<<SubSeq(Block, 1, kScopeInitialSize + 1)>>)
  /\ budget' = budget - 1
  /\ OomFrame

\* WRITE_BYTECOUNT(): the constructor of new_stream_ allocates its buffer
\* before the stream pointer is redirected.
OomEnter ==
  /\ pc = "running" /\ budget > 0
  /\ Len(ws.scopes) < MaxDepth
  /\ IF arg.allocs = 0
     THEN ws' = ws /\ arg' = arg /\ pc' = ThrowOOM(ws)
     ELSE /\ ws' = PushBytecountFrontScope(ws)
          /\ arg' = [allocs |-> arg.allocs - 1]
          /\ pc' = "running"
  /\ budget' = budget - 1
  /\ OomFrame

\* The end of the C++ scope: the destructor runs.
OomLeave ==
  /\ pc = "running"
  /\ Len(ws.scopes) >= 1
  /\ LET r == ReleaseBytecountFrontScope(ws, arg.allocs)
     IN /\ ws' = r.s
        /\ arg' = [allocs |-> r.allocs]
        /\ pc' = IF r.oom THEN ThrowOOM(r.s) ELSE "running"
  /\ UNCHANGED budget
  /\ OomFrame

\* The unwind passes the innermost open scope: its destructor runs.
OomUnwind ==
  /\ pc = "unwinding"
  /\ LET r == ReleaseBytecountFrontScope(ws, arg.allocs)
     IN /\ ws' = r.s
        /\ arg' = [allocs |-> r.allocs]
        /\ pc' = ThrowOOM(r.s)
  /\ UNCHANGED budget
  /\ OomFrame

OomNext ==
  \/ OomWriteByte
  \/ OomWriteBytes
  \/ OomEnter
  \/ OomLeave
  \/ OomUnwind

SpecOom == OomInit /\ [][OomNext]_vars

\* C17: on every exit path of a length-prefix scope, normal completion or
\* an OOM raised while the scope is open or while it is being closed, the
\* stream pointer designates the enclosing stream again: once no scope is
\* open any more, it designates the stream the client started with.
C17_RestoredOnEveryExit ==
  ws.scopes = <<>> => ws.stream = 1

-----------------------------------------------------------------------------
(* SpecStream: a client writes to one WriteStream whose allocator always   *)
(* succeeds.  ws is the stream; res counts the bytes the calls so far were *)
(* to write.                                                               *)

\* Number of write calls of a client run.
MaxWrites == 4
\* Largest size_needed a Resize is examined with.
MaxNeeded == 40

StreamInitialSizes == {1, 3, kScopeInitialSize}
StreamBytes == {0, 255}
StreamUnsigneds == {98, 300}
StreamSigneds == {-16, -65}
\* The lengths passed to WriteBytes.
StreamLens == {0, 3, MaxNeeded}

StreamInit ==
  /\ IdleBuilder
  /\ \E initial_size \in StreamInitialSizes : ws = WriteStream(initial_size)
  /\ entered = <<>> /\ closed = <<>>
  /\ budget = MaxWrites
  /\ arg = <<>>
  /\ res = [written |-> 0]
  /\ pc = "idle"

StreamFrame ==
  /\ budget' = budget - 1
  /\ UNCHANGED <<types, functions, proc, out, entered, closed, arg, pc>>

StreamWriteFixed ==
  /\ budget > 0
  /\ \E value \in StreamBytes : ws' = WriteFixed(ws, value)
  /\ res' = [written |-> res.written + 1]
  /\ StreamFrame

StreamWriteUnsigned ==
  /\ budget > 0
  /\ \E value \in StreamUnsigneds :
       /\ ws' = WriteUnsigned(ws, value)
       /\ res' = [written |-> res.written + UlebLen(value)]
  /\ StreamFrame

StreamWrite ==
  /\ budget > 0
  /\ \E value \in StreamSigneds :
       /\ ws' = Write(ws, value)
       /\ res' = [written |-> res.written + MinGroups(value)]
  /\ StreamFrame

StreamWriteBytes ==
  /\ budget > 0
  /\ \E len \in StreamLens :
       /\ ws' = WriteBytes(ws, SubSeq(Block, 1, len))
       /\ res' = [written |-> res.written + len]
  /\ StreamFrame

StreamNext ==
  \/ StreamWriteFixed
  \/ StreamWriteUnsigned
  \/ StreamWrite
  \/ StreamWriteBytes

SpecStream == StreamInit /\ [][StreamNext]_vars

Max(a, b) == IF a >= b THEN a ELSE b

\* The sizes a write can call Resize with on st: those that do not fit.
SizesNeeded(st) ==
  {n \in 1 .. MaxNeeded : st.current_size - Position(st) < n}

\* C20: with a succeeding allocator, after every write position() is the
\* number of bytes written so far and 0 <= position() <= capacity; no write
\* shrinks the capacity or changes a byte written before it; and each
\* Resize(size_needed) adds max(capacity, size_needed rounded up to a
\* multiple of the initial size) to the capacity, leaves at least
\* size_needed bytes free and keeps the written bytes.
C20_StreamInvariants ==
  /\ [](/\ Position(ws) = res.written
        /\ 0 <= Position(ws) /\ Position(ws) <= ws.current_size)
  /\ [][/\ ws'.current_size >= ws.current_size
        /\ Len(ws'.buffer) >= Len(ws.buffer)
        /\ SubSeq(ws'.buffer, 1, Len(ws.buffer)) = ws.buffer]_vars
  /\ [](\A size_needed \in SizesNeeded(ws) :
          LET r == Resize(ws, size_needed)
          IN /\ r.current_size - ws.current_size
                  = Max(ws.current_size, RoundUp(size_needed, ws.initial_size))
             /\ r.current_size - Position(r) >= size_needed
             /\ r.buffer = ws.buffer
             /\ r.initial_size = ws.initial_size)

\* Witness of C20: a stream of initial size 3 holds 3 + 40 bytes after a
\* write that needed 40 bytes when none was free, so that its capacity is
\* 3 + 42; the next write will resize again.
C20_Witness ==
  /\ ws.initial_size = 3
  /\ res.written = 3 + MaxNeeded
  /\ ws.current_size = 3 + RoundUp(MaxNeeded, 3)
  /\ SubSeq(ws.buffer, 4, 3 + MaxNeeded) = SubSeq(Block, 1, MaxNeeded)
  /\ SizesNeeded(ws) # {}

-----------------------------------------------------------------------------
(* SpecEmit: the client of Spec builds a module and then emits it up to    *)
(* MaxEmissions times, as text or as binary, in any order.  res is the     *)
(* list of the emissions made so far.                                      *)

\* Number of emissions of one builder.
MaxEmissions == 2

\* What one call of OutputBinary on `target` left: the bytes it appended,
\* how it ended, and the target stream afterwards.
BinaryEmission(target, s) ==
  [kind |-> "binary",
   status |-> s.status,
   output |-> SubSeq(s.mem[1].buffer, Position(target) + 1, Len(s.mem[1].buffer)),
   stream |-> s.mem[1]]

\* What one call of Serialize returned.
TextEmission(sexp) ==
  [kind |-> "text", status |-> "ok", output |-> sexp, stream |-> <<>>]

\* The stream handed to OutputBinary: one of TargetStreams, or a stream an
\* earlier OutputBinary call of this client wrote to.
EmitTargets ==
  TargetStreams
    \cup {res[k].stream : k \in {j \in 1 .. Len(res) : res[j].kind = "binary"}}

EmitInit == Init

\* The factory operations of Spec, before the first emission.
EmitBuild ==
  /\ res = <<>>
  /\ \/ MakeFuncType
     \/ AddParam
     \/ MakeStructType
     \/ AddField
     \/ AddFieldOfValueType
     \/ AddFieldOfPackedType
     \/ MakeArrayType
     \/ AddFunction
     \/ AddLocal
     \/ MakeNewBody
     \/ AddLocalGet
     \/ AddLocalSet
     \/ AddInt32Add
     \/ AddConstant
     \/ AddIf

EmitFrame == UNCHANGED <<out, ws, entered, closed, budget, arg, pc>>

\* WasmModuleBuilder::OutputBinary(stream).
EmitOutputBinary ==
  /\ proc = "running" /\ Len(res) < MaxEmissions
  /\ \E target \in EmitTargets, flag \in BOOLEAN :
       res' = Append(res, BinaryEmission(target,
                            WasmModuleBuilder_OutputBinary(
                                TracedStreamState(target, flag), types, functions)))
  /\ proc' = IF res'[Len(res')].status = "ok" THEN "running"
             ELSE res'[Len(res')].status
  /\ UNCHANGED <<types, functions>>
  /\ EmitFrame

\* WasmModuleBuilder::Serialize(zone).
EmitSerialize ==
  /\ proc = "running" /\ Len(res) < MaxEmissions
  /\ res' = Append(res, TextEmission(WasmModuleBuilder_Serialize(types, functions)))
  /\ proc' = proc
  /\ UNCHANGED <<types, functions>>
  /\ EmitFrame

EmitNext ==
  \/ EmitBuild
  \/ EmitOutputBinary
  \/ EmitSerialize

SpecEmit == EmitInit /\ [][EmitNext]_vars

\* C21: OutputBinary and Serialize leave the type list and the function
\* list as they are, with every index, locals list and body in them; and of
\* two emissions of one builder in the same form, in whatever order text
\* and binary were emitted and to whatever stream, the second produces what
\* the first produced.
C21_EmissionIsReadOnly ==
  /\ [][Len(res') > Len(res) => (types' = types /\ functions' = functions)]_vars
  /\ [](\A i, j \in 1 .. Len(res) :
          res[i].kind = res[j].kind =>
            /\ res[i].output = res[j].output
            /\ res[i].status = res[j].status)

\* Witness of C21: a module with a type and a function was emitted in
\* binary to a stream that held one byte and then once more to the same
\* stream, which now holds that byte and twice the module.
C21_Witness ==
  /\ Len(res) = 2
  /\ res[1].kind = "binary" /\ res[2].kind = "binary"
  /\ res[2].status = "ok"
  /\ Len(types) >= 1 /\ Len(functions) >= 1
  /\ Len(res[1].stream.buffer) = 1 + Len(res[1].output)
  /\ res[2].stream.buffer = res[1].stream.buffer \o res[1].output

====
